---- MODULE Spec2Model ----
(***************************************************************************)
(* Signed-release verification and the update applier of the installer    *)
(* (src/src/bin/installer.rs, src/src/config.rs).                         *)
(*                                                                         *)
(* Text is a sequence of ASCII codes and a file's content a sequence of   *)
(* bytes, so that formatting, hex and base64 are computed, not assumed.   *)
(* blake3 and Ed25519 are library primitives; they are modelled by the    *)
(* properties the code relies on: the hash is injective on the model's    *)
(* inputs, signing is deterministic and injective in the message, and     *)
(* verify_strict accepts exactly the signature the matching private key   *)
(* produces for the message.                                               *)
(***************************************************************************)
EXTENDS Integers, Sequences, FiniteSets, TLC

\* ------------------------------------------------------------------ bounds
\* the key pairs that exist (key 1 signs the project's releases)
NumKeys == 2
\* an archive file is 1..MaxArtifactLen bytes long
MaxArtifactLen == 2
\* the model's hash output length in bytes (blake3's is 32)
HashLen == 4
\* the number of update runs started on the host

\* --------------------------------------------------------------- constants
RELEASE_SIG_VERSION == 1
\* "viewtube-release"
RELEASE_SIG_PREFIX ==
    <<118, 105, 101, 119, 116, 117, 98, 101, 45, 114, 101, 108, 101, 97, 115, 101>>
\* "ed25519"
ED25519 == <<101, 100, 50, 53, 53, 49, 57>>
\* "rsa"
RSA == <<114, 115, 97>>
\* [u8; 64], the raw signature
SIGNATURE_LENGTH == 64
\* [u8; 32], the raw public key
PUBLIC_KEY_LENGTH == 32
SECRET_KEY_LENGTH == 32

KeyIds == 1..NumKeys

\* ------------------------------------------------------------ text helpers
\* format!("{}", n) of an unsigned integer: its decimal digits
RECURSIVE DecimalStr(_)
DecimalStr(n) ==
    IF n < 10 THEN <<48 + n>> ELSE DecimalStr(n \div 10) \o <<48 + (n % 10)>>

\* one lowercase hexadecimal digit
HexDigit(n) == IF n < 10 THEN 48 + n ELSE 87 + n

\* Hash::to_hex: two lowercase hex digits per byte
ToHex(bytes) ==
    [i \in 1..(2 * Len(bytes)) |->
        IF i % 2 = 1 THEN HexDigit(bytes[(i + 1) \div 2] \div 16)
                     ELSE HexDigit(bytes[i \div 2] % 16)]

\* ------------------------------------------------------------------ base64
PAD == 61

\* the STANDARD alphabet: A-Z a-z 0-9 + /
B64Char(v) ==
    IF v < 26 THEN 65 + v
    ELSE IF v < 52 THEN 97 + (v - 26)
    ELSE IF v < 62 THEN 48 + (v - 52)
    ELSE IF v = 62 THEN 43 ELSE 47

\* the 6-bit value of a symbol, -1 for a byte outside the alphabet
B64Value(c) ==
    IF c >= 65 /\ c <= 90 THEN c - 65
    ELSE IF c >= 97 /\ c <= 122 THEN c - 97 + 26
    ELSE IF c >= 48 /\ c <= 57 THEN c - 48 + 52
    ELSE IF c = 43 THEN 62
    ELSE IF c = 47 THEN 63 ELSE -1

ByteAt(bytes, j) == IF j <= Len(bytes) THEN bytes[j] ELSE 0

\* BASE64.encode: 3 bytes to 4 symbols, the last group padded with '='
Base64Encode(bytes) ==
    LET n == Len(bytes)
        groups == (n + 2) \div 3
        symbols == (8 * n + 5) \div 6
    IN  [i \in 1..(4 * groups) |->
            LET g == (i - 1) \div 4
                k == (i - 1) % 4
                b1 == ByteAt(bytes, 3 * g + 1)
                b2 == ByteAt(bytes, 3 * g + 2)
                b3 == ByteAt(bytes, 3 * g + 3)
            IN  IF i > symbols THEN PAD
                ELSE IF k = 0 THEN B64Char(b1 \div 4)
                ELSE IF k = 1 THEN B64Char((b1 % 4) * 16 + b2 \div 16)
                ELSE IF k = 2 THEN B64Char((b2 % 16) * 4 + b3 \div 64)
                ELSE B64Char(b3 % 64)]

\* the number of '=' that end the text (at most 3 are looked at)
TrailingPads(s) ==
    LET n == Len(s)
    IN  IF n >= 1 /\ s[n] = PAD
        THEN IF n >= 2 /\ s[n - 1] = PAD
             THEN IF n >= 3 /\ s[n - 2] = PAD THEN 3 ELSE 2
             ELSE 1
        ELSE 0

\* BASE64.decode with the STANDARD engine: every symbol in the alphabet,
\* canonical padding, no non-zero trailing bits
Base64Decode(s) ==
    LET p == TrailingPads(s)
        m == Len(s) - p
        v(i) == B64Value(s[i])
        nbytes == (6 * m) \div 8
        bad == \/ p > 2
               \/ \E i \in 1..m : v(i) < 0
               \/ m % 4 = 1
               \/ (m + p) % 4 # 0
               \/ (m % 4 = 2 /\ v(m) % 16 # 0)
               \/ (m % 4 = 3 /\ v(m) % 4 # 0)
    IN  IF bad THEN [ok |-> FALSE, bytes |-> <<>>]
        ELSE [ok |-> TRUE,
              bytes |-> [j \in 1..nbytes |->
                  LET g == (j - 1) \div 3
                      k == (j - 1) % 3
                  IN  IF k = 0 THEN v(4 * g + 1) * 4 + v(4 * g + 2) \div 16
                      ELSE IF k = 1 THEN (v(4 * g + 2) % 16) * 16 + v(4 * g + 3) \div 4
                      ELSE (v(4 * g + 3) % 4) * 64 + v(4 * g + 4)]]

\* ------------------------------------------------------ library primitives
\* blake3 over the file's bytes: injective (the bytes, a 0x80 marker, zeros)
Blake3(bytes) ==
    [i \in 1..HashLen |->
        IF i <= Len(bytes) THEN bytes[i]
        ELSE IF i = Len(bytes) + 1 THEN 128 ELSE 0]

\* the raw private and public key of key pair k
SecretBytes(k) == [i \in 1..PUBLIC_KEY_LENGTH |-> (97 * k + i) % 256]
PublicBytes(k) == [i \in 1..PUBLIC_KEY_LENGTH |-> (16 * k + 3 * i) % 256]

\* SigningKey::sign: deterministic, injective in the message for a key
Ed25519Sign(k, msg) ==
    [i \in 1..SIGNATURE_LENGTH |->
        IF i = SIGNATURE_LENGTH THEN Len(msg)
        ELSE IF i <= Len(msg) THEN (msg[i] + k) % 256
        ELSE k]

\* VerifyingKey::from_bytes: the bytes must be a key's public point
IsPublicPoint(bytes) == \E k \in KeyIds : PublicBytes(k) = bytes

\* VerifyingKey::verify_strict
VerifyStrict(pub, msg, sig) ==
    \E k \in KeyIds : PublicBytes(k) = pub /\ sig = Ed25519Sign(k, msg)

\* ------------------------------------------------------------------- files
\* an archive file on disk
File(bytes) == [exists |-> TRUE, bytes |-> bytes]
NoFile == [exists |-> FALSE, bytes |-> <<>>]

\* struct ReleaseSignature
ReleaseSignature(format, version, digest, signature) ==
    [format |-> format, version |-> version, digest |-> digest,
     signature |-> signature]
NoPayload == ReleaseSignature(0, <<>>, <<>>, <<>>)

\* a sidecar file: absent, not the JSON of a ReleaseSignature, or its JSON
SigFile(payload) == [kind |-> "json", payload |-> payload]
NoSigFile == [kind |-> "missing", payload |-> NoPayload]
GarbageSigFile == [kind |-> "garbage", payload |-> NoPayload]

\* struct SerializedPublicKey in its file
PublicKeyFile(algorithm, public_key) ==
    [kind |-> "json", algorithm |-> algorithm, public_key |-> public_key]
NoKeyFile == [kind |-> "missing", algorithm |-> <<>>, public_key |-> <<>>]
GarbageKeyFile == [kind |-> "garbage", algorithm |-> <<>>, public_key |-> <<>>]

\* struct SerializedPrivateKey in its file
PrivateKeyFile(algorithm, private_key, public_key) ==
    [kind |-> "json", algorithm |-> algorithm, private_key |-> private_key,
     public_key |-> public_key]

NoPrivateKeyFile ==
    [kind |-> "missing", algorithm |-> <<>>, private_key |-> <<>>,
     public_key |-> <<>>]
GarbagePrivateKeyFile ==
    [kind |-> "garbage", algorithm |-> <<>>, private_key |-> <<>>,
     public_key |-> <<>>]

\* ------------------------------------------------------- signer and verifier
\* fn compute_blake3_hex
compute_blake3_hex(file) ==
    IF ~file.exists THEN [err |-> "Io", hex |-> <<>>]
    ELSE [err |-> "None", hex |-> ToHex(Blake3(file.bytes))]

\* a message that leaves the version out: "{prefix}|v{format}|{digest}"
signature_message_NoVersion(version, digest_hex) ==
    RELEASE_SIG_PREFIX \o <<124, 118>> \o DecimalStr(RELEASE_SIG_VERSION)
        \o <<124>> \o digest_hex

\* fn signature_message: "{prefix}|v{format}|{version}|{digest}" as bytes
signature_message(version, digest_hex) ==
    RELEASE_SIG_PREFIX \o <<124, 118>> \o DecimalStr(RELEASE_SIG_VERSION)
        \o <<124>> \o version \o <<124>> \o digest_hex

\* a signer that creates the sidecar before it digests the artifact
sign_release_file_WritesFirst(artifact, signing_key, version) ==
    LET d == compute_blake3_hex(artifact)
        message == signature_message(version, d.hex)
    IN  [err |-> d.err,
         written |-> SigFile(ReleaseSignature(RELEASE_SIG_VERSION, version,
             d.hex, Base64Encode(Ed25519Sign(signing_key, message))))]

\* a signer that encodes the signature without the '=' padding
sign_release_file_Unpadded(artifact, signing_key, version) ==
    LET d == compute_blake3_hex(artifact)
    IN  IF d.err # "None" THEN [err |-> d.err, written |-> NoSigFile]
        ELSE LET message == signature_message(version, d.hex)
                 signature == Base64Encode(Ed25519Sign(signing_key, message))
             IN  [err |-> "None",
                  written |-> SigFile(ReleaseSignature(RELEASE_SIG_VERSION,
                      version, d.hex,
                      SubSeq(signature, 1,
                             Len(signature) - TrailingPads(signature))))]

\* fn sign_release_file: the sidecar it writes, or the error it stops on
sign_release_file(artifact, signing_key, version) ==
    LET d == compute_blake3_hex(artifact)
    IN  IF d.err # "None" THEN [err |-> d.err, written |-> NoSigFile]
        ELSE LET message == signature_message(version, d.hex)
                 signature == Ed25519Sign(signing_key, message)
             IN  [err |-> "None",
                  written |-> SigFile(ReleaseSignature(RELEASE_SIG_VERSION,
                                  version, d.hex, Base64Encode(signature)))]

VerifyResult(err, payload, hashed, checked) ==
    [err |-> err, payload |-> payload, hashed |-> hashed, checked |-> checked]

\* the signature check of lines 1623-1631, on a payload whose digest matched
CheckSignature(payload, verifying_key) ==
    LET decoded == Base64Decode(payload.signature)
    IN  IF ~decoded.ok
        THEN VerifyResult("Base64Decode", NoPayload, TRUE, FALSE)
        ELSE IF Len(decoded.bytes) # SIGNATURE_LENGTH
        THEN VerifyResult("InvalidSignatureLength", NoPayload, TRUE, FALSE)
        ELSE IF ~VerifyStrict(verifying_key,
                 signature_message(payload.version, payload.digest),
                 decoded.bytes)
        THEN VerifyResult("SignatureInvalid", NoPayload, TRUE, TRUE)
        ELSE VerifyResult("None", payload, TRUE, TRUE)

\* a verifier that never compares the digests
verify_release_signature_NoDigest(artifact, signature_file, verifying_key) ==
    IF signature_file.kind = "missing"
    THEN VerifyResult("Io", NoPayload, FALSE, FALSE)
    ELSE IF signature_file.kind = "garbage"
    THEN VerifyResult("Parse", NoPayload, FALSE, FALSE)
    ELSE IF signature_file.payload.format # RELEASE_SIG_VERSION
    THEN VerifyResult("UnsupportedFormat", NoPayload, FALSE, FALSE)
    ELSE IF ~artifact.exists THEN VerifyResult("Io", NoPayload, TRUE, FALSE)
    ELSE CheckSignature(signature_file.payload, verifying_key)

\* a verifier that checks the signature before it compares the digests
verify_release_signature_SignatureFirst(artifact, signature_file, verifying_key) ==
    IF signature_file.kind = "missing"
    THEN VerifyResult("Io", NoPayload, FALSE, FALSE)
    ELSE IF signature_file.kind = "garbage"
    THEN VerifyResult("Parse", NoPayload, FALSE, FALSE)
    ELSE IF signature_file.payload.format # RELEASE_SIG_VERSION
    THEN VerifyResult("UnsupportedFormat", NoPayload, FALSE, FALSE)
    ELSE
    LET d == compute_blake3_hex(artifact)
        checked == CheckSignature(signature_file.payload, verifying_key)
    IN  IF d.err # "None" THEN VerifyResult(d.err, NoPayload, TRUE, FALSE)
        ELSE IF checked.err # "None" THEN checked
        ELSE IF d.hex # signature_file.payload.digest
        THEN VerifyResult("ChecksumMismatch", NoPayload, TRUE, TRUE)
        ELSE checked

\* a verifier that decodes the signature and never calls verify_strict
verify_release_signature_Unverified(artifact, signature_file, verifying_key) ==
    IF signature_file.kind = "missing"
    THEN VerifyResult("Io", NoPayload, FALSE, FALSE)
    ELSE IF signature_file.kind = "garbage"
    THEN VerifyResult("Parse", NoPayload, FALSE, FALSE)
    ELSE IF signature_file.payload.format # RELEASE_SIG_VERSION
    THEN VerifyResult("UnsupportedFormat", NoPayload, FALSE, FALSE)
    ELSE
    LET d == compute_blake3_hex(artifact)
    IN  IF d.err # "None" THEN VerifyResult(d.err, NoPayload, TRUE, FALSE)
        ELSE IF d.hex # signature_file.payload.digest
        THEN VerifyResult("ChecksumMismatch", NoPayload, TRUE, FALSE)
        ELSE
        LET decoded == Base64Decode(signature_file.payload.signature)
        IN  IF ~decoded.ok
            THEN VerifyResult("Base64Decode", NoPayload, TRUE, FALSE)
            ELSE IF Len(decoded.bytes) # SIGNATURE_LENGTH
            THEN VerifyResult("InvalidSignatureLength", NoPayload, TRUE, FALSE)
            ELSE VerifyResult("None", signature_file.payload, TRUE, FALSE)

\* a verifier that digests the artifact before it looks at the format
verify_release_signature_DigestFirst(artifact, signature_file, verifying_key) ==
    IF signature_file.kind = "missing"
    THEN VerifyResult("Io", NoPayload, FALSE, FALSE)
    ELSE IF signature_file.kind = "garbage"
    THEN VerifyResult("Parse", NoPayload, FALSE, FALSE)
    ELSE
    LET d == compute_blake3_hex(artifact)
    IN  IF d.err # "None" THEN VerifyResult(d.err, NoPayload, TRUE, FALSE)
        ELSE IF d.hex # signature_file.payload.digest
        THEN VerifyResult("ChecksumMismatch", NoPayload, TRUE, FALSE)
        ELSE IF signature_file.payload.format # RELEASE_SIG_VERSION
        THEN VerifyResult("UnsupportedFormat", NoPayload, TRUE, FALSE)
        ELSE CheckSignature(signature_file.payload, verifying_key)

\* fn verify_release_signature: the payload or the error, with whether the
\* artifact was digested and whether verify_strict was called
verify_release_signature(artifact, signature_file, verifying_key) ==
    IF signature_file.kind = "missing"
    THEN VerifyResult("Io", NoPayload, FALSE, FALSE)
    ELSE IF signature_file.kind = "garbage"
    THEN VerifyResult("Parse", NoPayload, FALSE, FALSE)
    ELSE
    LET payload == signature_file.payload
    IN  IF payload.format # RELEASE_SIG_VERSION
        THEN VerifyResult("UnsupportedFormat", NoPayload, FALSE, FALSE)
        ELSE
        LET d == compute_blake3_hex(artifact)
        IN  IF d.err # "None" THEN VerifyResult(d.err, NoPayload, TRUE, FALSE)
            ELSE IF d.hex # payload.digest
            THEN VerifyResult("ChecksumMismatch", NoPayload, TRUE, FALSE)
            ELSE
            CheckSignature(payload, verifying_key)

\* a loader that never looks at the algorithm tag
load_public_key_AnyAlgorithm(file) ==
    IF file.kind = "missing" THEN [err |-> "Io", key |-> <<>>]
    ELSE IF file.kind = "garbage" THEN [err |-> "Parse", key |-> <<>>]
    ELSE
    LET decoded == Base64Decode(file.public_key)
    IN  IF ~decoded.ok THEN [err |-> "Base64Decode", key |-> <<>>]
        ELSE IF Len(decoded.bytes) # PUBLIC_KEY_LENGTH
        THEN [err |-> "InvalidKeyLength", key |-> <<>>]
        ELSE IF ~IsPublicPoint(decoded.bytes)
        THEN [err |-> "InvalidKey", key |-> <<>>]
        ELSE [err |-> "None", key |-> decoded.bytes]

\* fn load_public_key
load_public_key(file) ==
    IF file.kind = "missing" THEN [err |-> "Io", key |-> <<>>]
    ELSE IF file.kind = "garbage" THEN [err |-> "Parse", key |-> <<>>]
    ELSE IF file.algorithm # ED25519
    THEN [err |-> "UnsupportedAlgorithm", key |-> <<>>]
    ELSE
    LET decoded == Base64Decode(file.public_key)
    IN  IF ~decoded.ok THEN [err |-> "Base64Decode", key |-> <<>>]
        ELSE IF Len(decoded.bytes) # PUBLIC_KEY_LENGTH
        THEN [err |-> "InvalidKeyLength", key |-> <<>>]
        ELSE IF ~IsPublicPoint(decoded.bytes)
        THEN [err |-> "InvalidKey", key |-> <<>>]
        ELSE [err |-> "None", key |-> decoded.bytes]

\* the public key file generate_signing_keypair writes for key pair k
TrustedKeyFile(k) == PublicKeyFile(ED25519, Base64Encode(PublicBytes(k)))

\* a loader of the private key that never looks at the algorithm tag
load_signing_key_AnyAlgorithm(file) ==
    IF file.kind = "missing" THEN [err |-> "Io", key |-> <<>>]
    ELSE IF file.kind = "garbage" THEN [err |-> "Parse", key |-> <<>>]
    ELSE
    LET decoded == Base64Decode(file.private_key)
    IN  IF ~decoded.ok THEN [err |-> "Base64Decode", key |-> <<>>]
        ELSE IF Len(decoded.bytes) # SECRET_KEY_LENGTH
        THEN [err |-> "InvalidKeyLength", key |-> <<>>]
        ELSE [err |-> "None", key |-> decoded.bytes]

\* fn load_signing_key: the secret bytes of the SigningKey, or the error
load_signing_key(file) ==
    IF file.kind = "missing" THEN [err |-> "Io", key |-> <<>>]
    ELSE IF file.kind = "garbage" THEN [err |-> "Parse", key |-> <<>>]
    ELSE IF file.algorithm # ED25519
    THEN [err |-> "UnsupportedAlgorithm", key |-> <<>>]
    ELSE
    LET decoded == Base64Decode(file.private_key)
    IN  IF ~decoded.ok THEN [err |-> "Base64Decode", key |-> <<>>]
        ELSE IF Len(decoded.bytes) # SECRET_KEY_LENGTH
        THEN [err |-> "InvalidKeyLength", key |-> <<>>]
        ELSE [err |-> "None", key |-> decoded.bytes]

\* the private key file generate_signing_keypair writes for key pair k
SigningKeyFile(k) ==
    PrivateKeyFile(ED25519, Base64Encode(SecretBytes(k)),
                   Base64Encode(PublicBytes(k)))

\* the key directory: viewtube-release.key and viewtube-release.pub
KeyDir(private, public) == [private |-> private, public |-> public]

\* a key generator that only looks for an existing private key
generate_signing_keypair_PrivateOnly(dir, k) ==
    IF dir.private.kind # "missing"
    THEN [err |-> "AlreadyExists", dir |-> dir]
    ELSE [err |-> "None", dir |-> KeyDir(SigningKeyFile(k), TrustedKeyFile(k))]

\* fn generate_signing_keypair, with key pair k drawn from OsRng
generate_signing_keypair(dir, k) ==
    IF dir.private.kind # "missing" \/ dir.public.kind # "missing"
    THEN [err |-> "AlreadyExists", dir |-> dir]
    ELSE [err |-> "None", dir |-> KeyDir(SigningKeyFile(k), TrustedKeyFile(k))]

\* the position of the last '.' of a file name, 0 when it has none
LastDot(name) ==
    LET dots == {i \in 1..Len(name) : name[i] = 46}
    IN  IF dots = {} THEN 0 ELSE CHOOSE i \in dots : \A j \in dots : j <= i

\* Path::with_extension on a file name: what follows the last '.' (when the
\* name has one that is not its first byte) is replaced by the extension
WithExtension(name, extension) ==
    LET dot == LastDot(name)
        stem == IF dot <= 1 THEN name ELSE SubSeq(name, 1, dot - 1)
    IN  stem \o <<46>> \o extension

\* fn signature_path_for: archive.with_extension("tar.gz.sig")
signature_path_for(archive) ==
    WithExtension(archive, <<116, 97, 114, 46, 103, 122, 46, 115, 105, 103>>)

\* ------------------------------------------------------------ model inputs
\* release tags: "", "v1", "v2"
Tags == {<<>>, <<118, 49>>, <<118, 50>>}

\* archive contents: the first byte stands for the archive's top-level
\* directory ('s' for source/, 'b' for bundle/)
ArtifactByte == {115, 98}
RECURSIVE BytesOfLen(_)
BytesOfLen(n) ==
    IF n = 0 THEN {<<>>}
    ELSE {<<b>> \o rest : b \in ArtifactByte, rest \in BytesOfLen(n - 1)}
ArtifactBytes == UNION {BytesOfLen(n) : n \in 1..MaxArtifactLen}

\* a byte of the file flipped, or the file truncated, or removed
OtherByte(b) == IF b = 115 THEN 98 ELSE 115
Damaged(file) ==
    {File([file.bytes EXCEPT ![i] = OtherByte(@)]) : i \in 1..Len(file.bytes)}
    \cup {File(SubSeq(file.bytes, 1, Len(file.bytes) - 1))}
    \cup {NoFile}

\* the bytes a changed base64 field gets: 'A', 'B', '!' and '='
TamperChars == {65, 66, 33, 61}

\* a sidecar with one field changed, or replaced by something unreadable
SidecarVariants(payload) ==
    {SigFile([payload EXCEPT !.signature[i] = c]) :
        i \in 1..Len(payload.signature), c \in TamperChars}
    \cup {SigFile([payload EXCEPT !.signature = SubSeq(@, 1, Len(@) - 4)])}
    \cup {SigFile([payload EXCEPT !.version = t]) : t \in Tags}
    \cup {SigFile([payload EXCEPT !.format = f]) : f \in {0, 2}}
    \cup {SigFile([payload EXCEPT !.digest = compute_blake3_hex(File(b)).hex]) :
            b \in ArtifactBytes}
    \cup {SigFile([payload EXCEPT !.signature =
                      Base64Encode(Ed25519Sign(k, signature_message(
                          payload.version, payload.digest)))]) : k \in KeyIds}
    \cup {NoSigFile, GarbageSigFile}

\* ------------------------------------------------------ the installed state
\* Option<T>: None is <<>>, Some(v) is <<v>>
None == <<>>
Some(v) == <<v>>
UnwrapOr(opt, default) == IF opt = None THEN default ELSE opt[1]

\* "/yt", "/www", "d.io", "unknown"
MEDIA_DIR == <<47, 121, 116>>
WWW_DIR == <<47, 119, 119, 119>>
DOMAIN_NAME == <<100, 46, 105, 111>>
UNKNOWN == <<117, 110, 107, 110, 111, 119, 110>>
\* config.rs: DEFAULT_NEWTUBE_PORT, DEFAULT_NEWTUBE_HOST, DEFAULT_RELEASE_REPO
DEFAULT_NEWTUBE_PORT == 8080
DEFAULT_NEWTUBE_HOST == <<49, 50, 55, 46, 48, 46, 48, 46, 49>>
DEFAULT_RELEASE_REPO ==
    <<80, 105, 110, 103, 97, 115, 109, 97, 115, 116, 101, 114, 47, 110, 101,
      119, 116, 117, 98, 101>>

\* struct EnvConfig: what the key=value lines of the config file hold
EnvConfig(media, www, version, domain, port, host, repo) ==
    [media_root |-> media, www_root |-> www, app_version |-> version,
     domain_name |-> domain, newtube_port |-> port, newtube_host |-> host,
     release_repo |-> repo]
EmptyEnv == EnvConfig(None, None, None, None, None, None, None)

\* the config file: absent, or its recognised keys
ConfigFile(env) == [exists |-> TRUE, env |-> env]
NoConfigFile == [exists |-> FALSE, env |-> EmptyEnv]

\* fn read_env_config: Ok(None) when the file does not exist
read_env_config(file) == IF file.exists THEN Some(file.env) ELSE None

\* fn load_runtime_paths_from
load_runtime_paths_from(file) ==
    LET cfg == read_env_config(file)
    IN  IF cfg = None THEN [err |-> "MissingConfig", www_root |-> <<>>]
        ELSE IF cfg[1].media_root = None
        THEN [err |-> "MissingMediaRoot", www_root |-> <<>>]
        ELSE IF cfg[1].www_root = None
        THEN [err |-> "MissingWwwRoot", www_root |-> <<>>]
        ELSE [err |-> "None", www_root |-> cfg[1].www_root[1]]

\* fn env_to_install_config: the InstallConfig, as the EnvConfig it is
\* written back as
env_to_install_config(env) ==
    IF env.media_root = None THEN [err |-> "MissingMediaRoot", cfg |-> EmptyEnv]
    ELSE IF env.www_root = None THEN [err |-> "MissingWwwRoot", cfg |-> EmptyEnv]
    ELSE IF env.domain_name = None
    THEN [err |-> "MissingDomainName", cfg |-> EmptyEnv]
    ELSE [err |-> "None",
          cfg |-> EnvConfig(env.media_root, env.www_root,
                     Some(UnwrapOr(env.app_version, UNKNOWN)), env.domain_name,
                     Some(UnwrapOr(env.newtube_port, DEFAULT_NEWTUBE_PORT)),
                     Some(UnwrapOr(env.newtube_host, DEFAULT_NEWTUBE_HOST)),
                     Some(UnwrapOr(env.release_repo, DEFAULT_RELEASE_REPO)))]

\* fn write_env_config: the file holds the seven keys of the InstallConfig
write_env_config(cfg) == ConfigFile(cfg)

\* ----------------------------------------------------- the applier's inputs
\* the two concurrent invocations of the installer
Runs == {1, 2}

\* install_release_binaries' list, in its order
Binaries == <<"backend", "download_channel", "routine_update", "installer">>
BinarySet == {Binaries[i] : i \in 1..Len(Binaries)}

\* the tags the release index reports: "v1", "v2" (a git tag is not empty)
V1 == <<118, 49>>
V2 == <<118, 50>>
ReleaseTags == {V1, V2}

\* the archives of a tag: the source tree and the binary bundle
SourceArchive(tag) == File(<<115, tag[2]>>)
BinaryBundle(tag) == File(<<98, tag[2]>>)
Truncated(file) == File(SubSeq(file.bytes, 1, Len(file.bytes) - 1))

\* the sidecar the project's packager (key pair 1) or someone else's writes
SignedBy(k, artifact, tag) == sign_release_file(artifact, k, tag).written

\* what a download or an operator can put in front of the applier
OfferedArtifacts ==
    {SourceArchive(V1), SourceArchive(V2), Truncated(SourceArchive(V2)),
     BinaryBundle(V2)}
OfferedSidecars ==
    {SignedBy(1, SourceArchive(V1), V1), SignedBy(1, SourceArchive(V2), V2),
     SignedBy(2, SourceArchive(V2), V2), SignedBy(1, BinaryBundle(V2), V2)}

\* tar::Archive::unpack into the temporary directory: the tree it leaves
NoTree == [root |-> "none", from |-> <<>>]
Untar(file) ==
    IF ~file.exists \/ file.bytes = <<>> THEN [err |-> "Io", tree |-> NoTree]
    ELSE [err |-> "None",
          tree |-> [root |-> IF file.bytes[1] = 115 THEN "source" ELSE "bundle",
                    from |-> file.bytes]]

\* what target/release holds after a successful cargo build
BuildOutputs == {BinarySet, BinarySet \ {"routine_update"}}

\* the name of the tag's source archive and of its sidecar in a release
\* "viewtube-src"
SOURCE_ARCHIVE_PREFIX == <<118, 105, 101, 119, 116, 117, 98, 101, 45, 115, 114, 99>>
\* "viewtube-bin"
BINARY_ARCHIVE_PREFIX == <<118, 105, 101, 119, 116, 117, 98, 101, 45, 98, 105, 110>>
\* format!("{prefix}-{tag}.tar.gz")
ArchiveName(prefix, tag) ==
    prefix \o <<45>> \o tag \o <<46, 116, 97, 114, 46, 103, 122>>
SrcName(tag) ==
    SOURCE_ARCHIVE_PREFIX \o <<45>> \o tag \o <<46, 116, 97, 114, 46, 103, 122>>
SigName(tag) ==
    SOURCE_ARCHIVE_PREFIX \o <<45>> \o tag
        \o <<46, 116, 97, 114, 46, 103, 122, 46, 115, 105, 103>>

\* struct GithubRelease, as the release index answers
GithubRelease(tag, assets) == [tag_name |-> tag, assets |-> assets]
IndexResponses ==
    {GithubRelease(t, {SrcName(t), SigName(t)}) : t \in ReleaseTags}
    \cup {GithubRelease(V2, {SrcName(V2)}),
          GithubRelease(V2, {SrcName(V2), SigName(V1)})}

\* the trusted public key file a host can have
KeyFiles ==
    {TrustedKeyFile(1), NoKeyFile, GarbageKeyFile,
     PublicKeyFile(RSA, Base64Encode(PublicBytes(1))),
     PublicKeyFile(ED25519, Base64Encode(SubSeq(PublicBytes(1), 1, 31))),
     PublicKeyFile(ED25519, <<33>> \o Base64Encode(PublicBytes(1)))}

\* the config file a host can have
InstalledEnv(version) ==
    EnvConfig(Some(MEDIA_DIR), Some(WWW_DIR), version, Some(DOMAIN_NAME), None,
              None, None)
ConfigFiles ==
    {ConfigFile(InstalledEnv(v)) : v \in {None, Some(V1)}}
    \cup {NoConfigFile,
          ConfigFile([InstalledEnv(Some(V1)) EXCEPT !.www_root = None]),
          ConfigFile([InstalledEnv(Some(V1)) EXCEPT !.domain_name = None])}

\* what was installed before any run: content "o"
OLD == <<111>>
Dir(state, from) == [state |-> state, from |-> from]

\* ------------------------------------------------------ state: the host
VARIABLES
    configFile,   \* the installed-state record (/etc/newtube-env)
    pubkeyFile,   \* the trusted public key file
    binDir,       \* BIN_ROOT: binary name -> the archive it was built from
    wwwRoot,      \* the www root: "full", "empty" or "partial", and from what
    run           \* per invocation: its position, locals and what it did

hostVars == <<configFile, pubkeyFile, binDir, wwwRoot, run>>

\* an invocation that has not started
IdleRun ==
    [pc |-> "idle", mode |-> "none", ended_in |-> "None", error |-> "None",
     latest |-> None, offered |-> {}, expected |-> None,
     src_asset |-> None, sig_asset |-> None,
     artifact |-> NoFile, signature |-> NoSigFile, key |-> <<>>,
     metadata |-> NoPayload, tree |-> NoTree, built |-> {}, next_bin |-> 1,
     requests |-> <<>>, touched |-> {}, commands |-> <<>>,
     faults |-> {}, exit_code |-> None]

HostIdle ==
    /\ configFile = NoConfigFile
    /\ pubkeyFile = NoKeyFile
    /\ binDir = [b \in BinarySet |-> OLD]
    /\ wwwRoot = Dir("full", OLD)
    /\ run = [r \in Runs |-> IdleRun]


\* --------------------------------------------- the config file as its text
\* the keys of the config file's lines
\* "MEDIA_ROOT"
KEY_MEDIA_ROOT == <<77, 69, 68, 73, 65, 95, 82, 79, 79, 84>>
\* "WWW_ROOT"
KEY_WWW_ROOT == <<87, 87, 87, 95, 82, 79, 79, 84>>
\* "NEWTUBE_PORT"
KEY_NEWTUBE_PORT == <<78, 69, 87, 84, 85, 66, 69, 95, 80, 79, 82, 84>>
\* "NEWTUBE_HOST"
KEY_NEWTUBE_HOST == <<78, 69, 87, 84, 85, 66, 69, 95, 72, 79, 83, 84>>
\* "APP_VERSION"
KEY_APP_VERSION == <<65, 80, 80, 95, 86, 69, 82, 83, 73, 79, 78>>
\* "DOMAIN_NAME"
KEY_DOMAIN_NAME == <<68, 79, 77, 65, 73, 78, 95, 78, 65, 77, 69>>
\* "RELEASE_REPO"
KEY_RELEASE_REPO == <<82, 69, 76, 69, 65, 83, 69, 95, 82, 69, 80, 79>>

\* char::is_whitespace, for the ASCII characters
IsSpace(c) == c \in {9, 10, 11, 12, 13, 32}

\* what is left of a text between its first and last kept positions
Between(text, kept) ==
    IF kept = {} THEN <<>>
    ELSE SubSeq(text, CHOOSE i \in kept : \A j \in kept : i <= j,
                      CHOOSE i \in kept : \A j \in kept : j <= i)

\* str::trim
Trim(text) == Between(text, {i \in 1..Len(text) : ~IsSpace(text[i])})

\* str::trim_matches('"')
TrimQuotes(text) == Between(text, {i \in 1..Len(text) : text[i] # 34})

\* str::lines: the text split at its line feeds, without a final empty line
RECURSIVE Lines(_)
Lines(text) ==
    LET feeds == {i \in 1..Len(text) : text[i] = 10}
    IN  IF text = <<>> THEN <<>>
        ELSE IF feeds = {} THEN <<text>>
        ELSE LET first == CHOOSE i \in feeds : \A j \in feeds : i <= j
             IN  <<SubSeq(text, 1, first - 1)>>
                     \o Lines(SubSeq(text, first + 1, Len(text)))

\* str::split_once('='): None when the line has no '='
SplitOnce(line) ==
    LET at == {i \in 1..Len(line) : line[i] = 61}
    IN  IF at = {} THEN None
        ELSE LET first == CHOOSE i \in at : \A j \in at : i <= j
             IN  Some([key |-> SubSeq(line, 1, first - 1),
                       value |-> SubSeq(line, first + 1, Len(line))])

\* the number a text of decimal digits denotes
RECURSIVE DecimalValue(_)
DecimalValue(digits) ==
    IF digits = <<>> THEN 0
    ELSE 10 * DecimalValue(SubSeq(digits, 1, Len(digits) - 1))
             + (digits[Len(digits)] - 48)

\* str::parse::<u16>: an optional '+', then digits, at most 65535
ParseU16(text) ==
    LET digits == IF text # <<>> /\ text[1] = 43 THEN Tail(text) ELSE text
    IN  IF digits = <<>> \/ \E i \in 1..Len(digits) : digits[i] \notin 48..57
        THEN None
        ELSE IF Len(digits) > 5 /\ \E i \in 1..(Len(digits) - 5) : digits[i] # 48
        THEN None
        ELSE LET n == DecimalValue(digits)
             IN  IF n > 65535 THEN None ELSE Some(n)

\* the match of read_env_config on one "key=value" line
ReadEnvLine(cfg, key, value) ==
    IF key = KEY_MEDIA_ROOT
    THEN [err |-> "None", cfg |-> [cfg EXCEPT !.media_root = Some(value)]]
    ELSE IF key = KEY_WWW_ROOT
    THEN [err |-> "None", cfg |-> [cfg EXCEPT !.www_root = Some(value)]]
    ELSE IF key = KEY_APP_VERSION
    THEN [err |-> "None", cfg |-> [cfg EXCEPT !.app_version = Some(value)]]
    ELSE IF key = KEY_DOMAIN_NAME
    THEN [err |-> "None", cfg |-> [cfg EXCEPT !.domain_name = Some(value)]]
    ELSE IF key = KEY_NEWTUBE_PORT
    THEN IF ParseU16(value) = None THEN [err |-> "ParsePort", cfg |-> cfg]
         ELSE [err |-> "None",
               cfg |-> [cfg EXCEPT !.newtube_port = ParseU16(value)]]
    ELSE IF key = KEY_NEWTUBE_HOST /\ value # <<>>
    THEN [err |-> "None", cfg |-> [cfg EXCEPT !.newtube_host = Some(value)]]
    ELSE IF key = KEY_RELEASE_REPO /\ value # <<>>
    THEN [err |-> "None", cfg |-> [cfg EXCEPT !.release_repo = Some(value)]]
    ELSE [err |-> "None", cfg |-> cfg]

\* the loop of read_env_config over the lines from the i-th on
RECURSIVE ReadEnvLines(_, _, _)
ReadEnvLines(lines, i, cfg) ==
    IF i > Len(lines) THEN [err |-> "None", cfg |-> cfg]
    ELSE LET trimmed == Trim(lines[i])
             pair == SplitOnce(trimmed)
         IN  IF trimmed = <<>> \/ trimmed[1] = 35 \/ pair = None
             THEN ReadEnvLines(lines, i + 1, cfg)
             ELSE LET r == ReadEnvLine(cfg, pair[1].key,
                                       TrimQuotes(Trim(pair[1].value)))
                  IN  IF r.err # "None" THEN r
                      ELSE ReadEnvLines(lines, i + 1, r.cfg)

\* the config file on disk: absent, or its text
EnvText(content) == [exists |-> TRUE, content |-> content]
NoEnvText == [exists |-> FALSE, content |-> <<>>]

\* fn read_env_config on the text of the file: Ok(None) when there is none
read_env_text(file) ==
    IF ~file.exists THEN [err |-> "None", cfg |-> None]
    ELSE LET r == ReadEnvLines(Lines(file.content), 1, EmptyEnv)
         IN  IF r.err # "None" THEN [err |-> r.err, cfg |-> None]
             ELSE [err |-> "None", cfg |-> Some(r.cfg)]

\* one line of write_env_config's format!: KEY="value"\n
EnvLine(key, value) == key \o <<61, 34>> \o value \o <<34, 10>>

\* fn write_env_config on an InstallConfig: the text it writes
write_env_text(cfg) ==
    EnvText(EnvLine(KEY_MEDIA_ROOT, cfg.media_root[1])
            \o EnvLine(KEY_WWW_ROOT, cfg.www_root[1])
            \o EnvLine(KEY_NEWTUBE_PORT, DecimalStr(cfg.newtube_port[1]))
            \o EnvLine(KEY_NEWTUBE_HOST, cfg.newtube_host[1])
            \o EnvLine(KEY_APP_VERSION, cfg.app_version[1])
            \o EnvLine(KEY_DOMAIN_NAME, cfg.domain_name[1])
            \o EnvLine(KEY_RELEASE_REPO, cfg.release_repo[1]))


\* ------------------------------------------ state: the config file's text
VARIABLES
    envFile,     \* the config file, as text
    envBefore,   \* the config file before it was rewritten
    envRead,     \* what the last read_env_config of the file returned
    envWrote,    \* the InstallConfig the last write_env_config was given
    envPhase     \* "off", "start", "rewritten", "rewrite_failed", "read",
                 \* "read_back", "written", "reread"

envVars == <<envFile, envBefore, envRead, envWrote, envPhase>>

NotRead == [err |-> "None", cfg |-> None]

EnvOff ==
    /\ envFile = NoEnvText
    /\ envBefore = NoEnvText
    /\ envRead = NotRead
    /\ envWrote = None
    /\ envPhase = "off"


\* ------------------------------------------ state: the release packager
VARIABLES
    workspace,   \* the repository: its tree, target/release, the key file
    outDir,      \* --output-dir: the two archives and their sidecars
    pkg          \* the packager process: position, error, tag, signing key

pkgVars == <<workspace, outDir, pkg>>

\* --output-dir before anything is written to it
EmptyOutDir ==
    [src |-> NoFile, src_entries |-> {}, src_sig |-> NoSigFile,
     bin |-> NoFile, bin_entries |-> {}, bin_sig |-> NoSigFile]

PkgOff ==
    /\ workspace = [tree |-> {}, built |-> {}, key_file |-> NoPrivateKeyFile]
    /\ outDir = EmptyOutDir
    /\ pkg = [pc |-> "off", error |-> "None", tag |-> <<>>, key |-> 0]

\* ------------------------------------------------ state: the backend's API
VARIABLES
    db,          \* the metadata database: the revision of each video's row,
                 \* 0 when there is no row
    bootstrap,   \* ApiCache.bootstrap: none, or the cached payload
    details,     \* ApiCache.video_details: per id, none or the cached record
    req,         \* the requests being served, each at its await point
    served       \* the first payload a get_bootstrap call returned

apiVars == <<db, bootstrap, details, req, served>>

\* ------------------------------------------ state: the channel downloader
VARIABLES
    archiveFile,   \* the ids written in download-archive.txt
    archiveSet,    \* the in-memory set load_archive returned, as updated
    mediaFiles,    \* per id, the formats whose media file is on disk
    dl,            \* the pass under way: its list, its position, its step
    dlLog          \* what the passes did, in order

dlVars == <<archiveFile, archiveSet, mediaFiles, dl, dlLog>>

svcVars == <<apiVars, dlVars>>

ApiOff ==
    /\ db = <<>>
    /\ bootstrap = None
    /\ details = <<>>
    /\ req = <<>>
    /\ served = None

DlOff ==
    /\ archiveFile = {}
    /\ archiveSet = {}
    /\ mediaFiles = <<>>
    /\ dl = <<>>
    /\ dlLog = <<>>

SvcOff == ApiOff /\ DlOff
\* ---------------------------------- state: the packaging and verifying bench
VARIABLES
    phase,            \* "packaged", "signed", "sign_failed", "verified"
    signedArtifact,   \* the archive file the packager built
    signedTag,        \* --release-tag
    signingKey,       \* the key pair of --signing-key
    sidecarFile,      \* the .sig file beside the archive
    trustedKey,       \* the key pair whose public key the host trusts
    checkedArtifact,  \* the archive handed to the verifier
    checkedSidecar,   \* the sidecar handed to the verifier
    verdict,          \* what verify_release_signature returned
    keyDir,           \* the files of --key-dir
    keyResult,        \* what the last load of a key file returned
    archivePath,      \* the file name of the archive being signed
    sidecarPath       \* the file name the sidecar was written under

benchVars ==
    <<phase, signedArtifact, signedTag, signingKey, sidecarFile, trustedKey,
      checkedArtifact, checkedSidecar, verdict, keyDir, keyResult,
      archivePath, sidecarPath>>

NotRun == VerifyResult("NotRun", NoPayload, FALSE, FALSE)

\* no key file has been loaded
NotLoaded == [which |-> "none", file |-> NoKeyFile, err |-> "None", key |-> <<>>]

\* the key pair whose secret or public bytes these are
KeyOfSecret(bytes) == CHOOSE k \in KeyIds : SecretBytes(k) = bytes
KeyOfPublic(bytes) == CHOOSE k \in KeyIds : PublicBytes(k) = bytes

\* the bench is not in use
BenchOff ==
    /\ phase = "off"
    /\ signedArtifact = NoFile
    /\ signedTag = <<>>
    /\ signingKey = 1
    /\ trustedKey = 1
    /\ sidecarFile = NoSigFile
    /\ checkedArtifact = NoFile
    /\ checkedSidecar = NoSigFile
    /\ verdict = NotRun
    /\ keyDir = KeyDir(NoPrivateKeyFile, NoKeyFile)
    /\ keyResult = NotLoaded
    /\ archivePath = <<>>
    /\ sidecarPath = <<>>

InitBench ==
    /\ phase = "packaged"
    /\ signedArtifact \in {File(b) : b \in ArtifactBytes} \cup {NoFile}
    /\ signedTag \in Tags
    /\ signingKey \in KeyIds
    /\ trustedKey \in KeyIds
    /\ sidecarFile = NoSigFile
    /\ checkedArtifact = NoFile
    /\ checkedSidecar = NoSigFile
    /\ verdict = NotRun
    /\ keyDir = KeyDir(SigningKeyFile(signingKey), TrustedKeyFile(signingKey))
    /\ keyResult = NotLoaded
    /\ archivePath = SrcName(signedTag)
    /\ sidecarPath = <<>>
    /\ HostIdle
    /\ EnvOff
    /\ PkgOff
    /\ SvcOff

\* package_release_artifacts signs the archive it built: the sidecar is
\* written, under signature_path_for's name, only when nothing failed before
SignRelease ==
    /\ phase = "packaged"
    /\ LET r == sign_release_file(signedArtifact, signingKey, signedTag)
       IN  /\ phase' = IF r.err = "None" THEN "signed" ELSE "sign_failed"
           /\ IF r.written = NoSigFile
              THEN UNCHANGED <<sidecarFile, sidecarPath>>
              ELSE /\ sidecarFile' = r.written
                   /\ sidecarPath' = signature_path_for(archivePath)
    /\ UNCHANGED <<signedArtifact, signedTag, signingKey, trustedKey,
                   checkedArtifact, checkedSidecar, verdict, keyDir,
                   keyResult, archivePath>>
    /\ UNCHANGED <<hostVars, envVars, pkgVars, svcVars>>

Verify(artifact, sidecar) ==
    /\ checkedArtifact' = artifact
    /\ checkedSidecar' = sidecar
    /\ verdict' = verify_release_signature(artifact, sidecar,
                                           PublicBytes(trustedKey))
    /\ phase' = "verified"
    /\ UNCHANGED <<signedArtifact, signedTag, signingKey, sidecarFile,
                   trustedKey, keyDir, keyResult, archivePath, sidecarPath>>
    /\ UNCHANGED <<hostVars, envVars, pkgVars, svcVars>>

\* the host verifies the published pair as it was signed
VerifyPublished ==
    /\ phase = "signed"
    /\ Verify(signedArtifact, sidecarFile)

\* the host verifies a pair that was changed on the way
VerifyTampered ==
    /\ phase = "signed"
    /\ \E a \in {signedArtifact} \cup Damaged(signedArtifact),
          s \in SidecarVariants(sidecarFile.payload) \cup {sidecarFile} :
          /\ <<a, s>> # <<signedArtifact, sidecarFile>>
          /\ Verify(a, s)

NextBench == SignRelease \/ VerifyPublished \/ VerifyTampered

vars == <<benchVars, hostVars, envVars, pkgVars, svcVars>>

SpecVerify == InitBench /\ [][NextBench]_vars


\* ---------------------------------------------------- the update applier
\* the stage of the update state machine a position belongs to
StageOf(pc) ==
    CASE pc = "idle" -> "Idle"
      [] pc = "check" -> "Checking"
      [] pc \in {"download_src", "download_sig"} -> "Downloading"
      [] pc \in {"load_key", "verify"} -> "Verifying"
      [] pc = "unpack" -> "Unpacking"
      [] pc = "build" -> "Building"
      [] pc \in {"install_bin", "prepare_assets", "copy_assets", "write_config"}
           -> "Installing"
      [] pc \in {"restart_backend", "restart_routine", "reload_nginx"}
           -> "Restarting"
      [] pc = "done" -> "Done"
      [] OTHER -> "Failed"

\* an order in which the backend is restarted before the config is written
After_RestartEarly(pc) ==
    CASE pc = "check" -> "download_src"
      [] pc = "download_src" -> "download_sig"
      [] pc = "download_sig" -> "load_key"
      [] pc = "load_key" -> "verify"
      [] pc = "verify" -> "unpack"
      [] pc = "unpack" -> "build"
      [] pc = "build" -> "install_bin"
      [] pc = "install_bin" -> "prepare_assets"
      [] pc = "prepare_assets" -> "copy_assets"
      [] pc = "copy_assets" -> "restart_backend"
      [] pc = "restart_backend" -> "write_config"
      [] pc = "write_config" -> "restart_routine"
      [] pc = "restart_routine" -> "reload_nginx"
      [] OTHER -> "done"

\* an order that installs what was unpacked without building it
After_SkipBuild(pc) ==
    CASE pc = "check" -> "download_src"
      [] pc = "download_src" -> "download_sig"
      [] pc = "download_sig" -> "load_key"
      [] pc = "load_key" -> "verify"
      [] pc = "verify" -> "unpack"
      [] pc = "unpack" -> "install_bin"
      [] pc = "build" -> "install_bin"
      [] pc = "install_bin" -> "prepare_assets"
      [] pc = "prepare_assets" -> "copy_assets"
      [] pc = "copy_assets" -> "write_config"
      [] pc = "write_config" -> "restart_backend"
      [] pc = "restart_backend" -> "restart_routine"
      [] pc = "restart_routine" -> "reload_nginx"
      [] OTHER -> "done"

\* an order that unpacks again after every build
After_Rebuild(pc) ==
    CASE pc = "check" -> "download_src"
      [] pc = "download_src" -> "download_sig"
      [] pc = "download_sig" -> "load_key"
      [] pc = "load_key" -> "verify"
      [] pc = "verify" -> "unpack"
      [] pc = "unpack" -> "build"
      [] pc = "build" -> "unpack"
      [] pc = "install_bin" -> "prepare_assets"
      [] pc = "prepare_assets" -> "copy_assets"
      [] pc = "copy_assets" -> "write_config"
      [] pc = "write_config" -> "restart_backend"
      [] pc = "restart_backend" -> "restart_routine"
      [] pc = "restart_routine" -> "reload_nginx"
      [] OTHER -> "done"

\* the order of the statements of auto_update_from_github and
\* apply_signed_source_archive
After(pc) ==
    CASE pc = "check" -> "download_src"
      [] pc = "download_src" -> "download_sig"
      [] pc = "download_sig" -> "load_key"
      [] pc = "load_key" -> "verify"
      [] pc = "verify" -> "unpack"
      [] pc = "unpack" -> "build"
      [] pc = "build" -> "install_bin"
      [] pc = "install_bin" -> "prepare_assets"
      [] pc = "prepare_assets" -> "copy_assets"
      [] pc = "copy_assets" -> "write_config"
      [] pc = "write_config" -> "restart_backend"
      [] pc = "restart_backend" -> "restart_routine"
      [] pc = "restart_routine" -> "reload_nginx"
      [] OTHER -> "done"

\* the systemctl command of a restarting position
CommandOf(pc) ==
    CASE pc = "restart_backend" -> "restart viewtube-backend.service"
      [] pc = "restart_routine" -> "restart viewtube-routine.service"
      [] OTHER -> "reload nginx"

Ended == {"done", "failed", "killed"}

\* the exit status of the process: main returns Ok(()) or the error, which
\* the runtime reports and turns into status 1; a process killed by
\* SIGKILL is reported by its parent as 128 + 9
ExitCode(how) ==
    CASE how = "done" -> 0
      [] how = "failed" -> 1
      [] OTHER -> 137

\* the process is gone: its locals and its temporary directories with it
Exit(rr, how, err) ==
    [rr EXCEPT !.pc = how, !.ended_in = StageOf(rr.pc), !.error = err,
               !.faults = IF how = "failed" THEN @ \cup {StageOf(rr.pc)}
                          ELSE @,
               !.exit_code = Some(ExitCode(how)),
               !.expected = None, !.src_asset = None, !.sig_asset = None,
               !.artifact = NoFile,
               !.signature = NoSigFile, !.key = <<>>, !.metadata = NoPayload,
               !.tree = NoTree, !.built = {}, !.next_bin = 1]

\* the next statement, or Ok(()) after the last one
Advance(rr) ==
    IF After(rr.pc) = "done" THEN Exit(rr, "done", "None")
    ELSE [rr EXCEPT !.pc = After(rr.pc)]

Step(r, rr) == run' = [run EXCEPT ![r] = rr]

\* the comparison the wrong way round
AlreadyLatest_Inverted(current_version, tag_name) ==
    current_version # <<>> /\ current_version # tag_name

\* a comparison that also stops when the latest tag is older than the
\* recorded version
AlreadyLatest_NotNewer(current_version, tag_name) ==
    /\ current_version # <<>>
    /\ Len(current_version) = Len(tag_name)
    /\ tag_name[Len(tag_name)] <= current_version[Len(tag_name)]

\* if !current_version.is_empty() && current_version == release.tag_name
AlreadyLatest(current_version, tag_name) ==
    current_version # <<>> /\ current_version = tag_name

\* a check that never looks at the expected version
VersionAccepted_Always(expected, metadata) == TRUE

\* a check that rejects a release when no version is expected
VersionAccepted_Required(expected, metadata) ==
    expected # None /\ expected[1] = metadata.version

\* expected_version.filter(|candidate| *candidate != metadata.version)
VersionAccepted(expected, metadata) ==
    expected = None \/ expected[1] = metadata.version

\* main: --auto-update, or --apply-archive with the two paths it is given
\* (the invocations are numbered in the order they start)
Invoke(r) ==
    /\ run[r].pc = "idle"
    /\ \A q \in Runs : q < r => run[q].pc # "idle"
    /\ \/ Step(r, [run[r] EXCEPT !.pc = "check", !.mode = "auto"])
       \/ \E a \in OfferedArtifacts, s \in OfferedSidecars :
            Step(r, [run[r] EXCEPT !.pc = "load_key", !.mode = "apply",
                                   !.artifact = a, !.signature = s])
    /\ UNCHANGED <<configFile, pubkeyFile, binDir, wwwRoot, benchVars, envVars, pkgVars, svcVars>>

\* a lookup that takes any asset with the same last four characters
FindAsset_BySuffix(assets, name) ==
    LET alike == {a \in assets :
                    /\ Len(a) >= 4
                    /\ SubSeq(a, Len(a) - 3, Len(a))
                           = SubSeq(name, Len(name) - 3, Len(name))}
    IN  IF alike = {} THEN None ELSE Some(CHOOSE a \in alike : TRUE)

\* release.assets.iter().find(|asset| asset.name == name)
FindAsset(assets, name) == IF name \in assets THEN Some(name) ELSE None

\* auto_update_from_github up to the asset lookup
Check(r) ==
    /\ run[r].pc = "check"
    /\ LET rr == run[r]
           env == read_env_config(configFile)
           asked == [rr EXCEPT !.requests = Append(@, <<"releases/latest">>)]
       IN  IF env = None THEN Step(r, Exit(rr, "failed", "MissingConfig"))
           ELSE
           \/ Step(r, Exit(asked, "failed", "Http"))
           \/ \E release \in IndexResponses :
                LET tag == release.tag_name
                    got == [asked EXCEPT !.latest = Some(tag),
                                         !.offered = release.assets]
                    src_asset == FindAsset(release.assets, SrcName(tag))
                    sig_asset == FindAsset(release.assets, SigName(tag))
                IN  IF AlreadyLatest(UnwrapOr(env[1].app_version, <<>>), tag)
                    THEN Step(r, Exit(got, "done", "None"))
                    ELSE IF src_asset = None \/ sig_asset = None
                    THEN Step(r, Exit(got, "failed", "AssetNotFound"))
                    ELSE Step(r, [got EXCEPT !.pc = After("check"),
                                             !.expected = Some(tag),
                                             !.src_asset = src_asset,
                                             !.sig_asset = sig_asset])
    /\ UNCHANGED <<configFile, pubkeyFile, binDir, wwwRoot, benchVars, envVars, pkgVars, svcVars>>

\* a download that is tried again when it fails
DownloadSource_Retrying(r) ==
    /\ run[r].pc = "download_src"
    /\ LET rr == run[r]
           asked == [rr EXCEPT !.requests =
                        Append(@, <<"asset", rr.src_asset[1]>>)]
       IN  \/ Step(r, asked)
           \/ \E a \in OfferedArtifacts :
                Step(r, [asked EXCEPT !.pc = After(rr.pc), !.artifact = a])
    /\ UNCHANGED <<configFile, pubkeyFile, binDir, wwwRoot, benchVars, envVars, pkgVars, svcVars>>

\* download_asset of the source archive into the scratch directory
DownloadSource(r) ==
    /\ run[r].pc = "download_src"
    /\ LET rr == run[r]
           asked == [rr EXCEPT !.requests =
                        Append(@, <<"asset", rr.src_asset[1]>>)]
       IN  \/ Step(r, Exit(asked, "failed", "Http"))
           \/ \E a \in OfferedArtifacts :
                Step(r, [asked EXCEPT !.pc = After(rr.pc), !.artifact = a])
    /\ UNCHANGED <<configFile, pubkeyFile, binDir, wwwRoot, benchVars, envVars, pkgVars, svcVars>>

\* download_asset of the sidecar
DownloadSignature(r) ==
    /\ run[r].pc = "download_sig"
    /\ LET rr == run[r]
           asked == [rr EXCEPT !.requests =
                        Append(@, <<"asset", rr.sig_asset[1]>>)]
       IN  \/ Step(r, Exit(asked, "failed", "Http"))
           \/ \E s \in OfferedSidecars :
                Step(r, [asked EXCEPT !.pc = After(rr.pc), !.signature = s])
    /\ UNCHANGED <<configFile, pubkeyFile, binDir, wwwRoot, benchVars, envVars, pkgVars, svcVars>>

\* apply_signed_source_archive: load_public_key(pubkey_path)?
LoadKey(r) ==
    /\ run[r].pc = "load_key"
    /\ LET rr == run[r]
           k == load_public_key(pubkeyFile)
       IN  IF k.err # "None" THEN Step(r, Exit(rr, "failed", k.err))
           ELSE Step(r, [rr EXCEPT !.pc = After(rr.pc), !.key = k.key])
    /\ UNCHANGED <<configFile, pubkeyFile, binDir, wwwRoot, benchVars, envVars, pkgVars, svcVars>>

\* verify_release_signature(...)? and the expected-version check
VerifyStep(r) ==
    /\ run[r].pc = "verify"
    /\ LET rr == run[r]
           res == verify_release_signature(rr.artifact, rr.signature, rr.key)
       IN  IF res.err # "None" THEN Step(r, Exit(rr, "failed", res.err))
           ELSE IF ~VersionAccepted(rr.expected, res.payload)
           THEN Step(r, Exit(rr, "failed", "VersionMismatch"))
           ELSE Step(r, [rr EXCEPT !.pc = After(rr.pc),
                                   !.metadata = res.payload])
    /\ UNCHANGED <<configFile, pubkeyFile, binDir, wwwRoot, benchVars, envVars, pkgVars, svcVars>>

\* an applier that builds whatever the archive unpacked to
Unpack_AnyRoot(r) ==
    /\ run[r].pc = "unpack"
    /\ LET rr == run[r]
           u == Untar(rr.artifact)
       IN  \/ Step(r, Exit(rr, "failed", "Io"))
           \/ IF u.err # "None" THEN Step(r, Exit(rr, "failed", u.err))
              ELSE Step(r, [rr EXCEPT !.pc = After(rr.pc), !.tree = u.tree])
    /\ UNCHANGED <<configFile, pubkeyFile, binDir, wwwRoot, benchVars, envVars, pkgVars, svcVars>>

\* an applier that extracts the archive over the www root
Unpack_OverWwwRoot(r) ==
    /\ run[r].pc = "unpack"
    /\ LET rr == run[r]
           u == Untar(rr.artifact)
       IN  IF u.err # "None"
           THEN Step(r, Exit(rr, "failed", u.err)) /\ UNCHANGED wwwRoot
           ELSE /\ wwwRoot' = Dir("full", u.tree.from)
                /\ Step(r, [rr EXCEPT !.pc = "build", !.tree = u.tree,
                                      !.touched = @ \cup {"www"}])
    /\ UNCHANGED <<configFile, pubkeyFile, binDir, benchVars, envVars, pkgVars, svcVars>>

\* TempDir::new, archive.unpack(temp.path()) and the source/ check
Unpack(r) ==
    /\ run[r].pc = "unpack"
    /\ LET rr == run[r]
           u == Untar(rr.artifact)
       IN  \/ Step(r, Exit(rr, "failed", "Io"))
           \/ IF u.err # "None" THEN Step(r, Exit(rr, "failed", u.err))
              ELSE IF u.tree.root # "source"
              THEN Step(r, Exit(rr, "failed", "MissingSourceDir"))
              ELSE Step(r, [rr EXCEPT !.pc = After(rr.pc), !.tree = u.tree])
    /\ UNCHANGED <<configFile, pubkeyFile, binDir, wwwRoot, benchVars, envVars, pkgVars, svcVars>>

\* run_command_in_dir("cargo", ["build", "--release"], &source_root)?
Build(r) ==
    /\ run[r].pc = "build"
    /\ LET rr == run[r]
       IN  \/ Step(r, Exit(rr, "failed", "BuildFailure"))
           \/ \E out \in BuildOutputs :
                Step(r, [rr EXCEPT !.pc = After(rr.pc), !.built = out,
                                   !.next_bin = 1])
    /\ UNCHANGED <<configFile, pubkeyFile, binDir, wwwRoot, benchVars, envVars, pkgVars, svcVars>>

\* a loop that passes over a binary the build did not produce
InstallBinary_SkipMissing(r) ==
    /\ run[r].pc = "install_bin"
    /\ LET rr == run[r]
           bin == Binaries[rr.next_bin]
           wrote == [rr EXCEPT !.touched = @ \cup {bin}]
       IN  /\ binDir' = IF bin \in rr.built
                        THEN [binDir EXCEPT ![bin] = rr.tree.from]
                        ELSE binDir
           /\ \/ Step(r, Exit(wrote, "failed", "Chown"))
              \/ Step(r, IF rr.next_bin = Len(Binaries)
                         THEN [wrote EXCEPT !.pc = After(rr.pc)]
                         ELSE [wrote EXCEPT !.next_bin = @ + 1])
    /\ UNCHANGED <<configFile, pubkeyFile, wwwRoot, benchVars, envVars, pkgVars, svcVars>>

\* one iteration of install_release_binaries' loop
InstallBinary(r) ==
    /\ run[r].pc = "install_bin"
    /\ LET rr == run[r]
           bin == Binaries[rr.next_bin]
           wrote == [rr EXCEPT !.touched = @ \cup {bin}]
       IN  IF bin \notin rr.built
           THEN Step(r, Exit(rr, "failed", "MissingBinary"))
                /\ UNCHANGED binDir
           ELSE /\ binDir' = [binDir EXCEPT ![bin] = rr.tree.from]
                /\ \/ Step(r, Exit(wrote, "failed", "Chown"))
                   \/ Step(r, IF rr.next_bin = Len(Binaries)
                              THEN [wrote EXCEPT !.pc = After(rr.pc)]
                              ELSE [wrote EXCEPT !.next_bin = @ + 1])
    /\ UNCHANGED <<configFile, pubkeyFile, wwwRoot, benchVars, envVars, pkgVars, svcVars>>

\* load_runtime_paths_from(config_path)? and the start of
\* copy_frontend_assets: remove_dir_all and create_dir_all of the www root
PrepareAssets(r) ==
    /\ run[r].pc = "prepare_assets"
    /\ LET rr == run[r]
           runtime == load_runtime_paths_from(configFile)
       IN  IF runtime.err # "None"
           THEN Step(r, Exit(rr, "failed", runtime.err)) /\ UNCHANGED wwwRoot
           ELSE /\ wwwRoot' = Dir("empty", <<>>)
                /\ Step(r, [rr EXCEPT !.pc = After(rr.pc),
                                      !.touched = @ \cup {"www"}])
    /\ UNCHANGED <<configFile, pubkeyFile, binDir, benchVars, envVars, pkgVars, svcVars>>

\* the copy loop of copy_frontend_assets, then ensure_media_permissions
CopyAssets(r) ==
    /\ run[r].pc = "copy_assets"
    /\ LET rr == run[r]
       IN  \/ /\ wwwRoot' = Dir("partial", rr.tree.from)
              /\ Step(r, Exit(rr, "failed", "Io"))
           \/ /\ wwwRoot' = Dir("full", rr.tree.from)
              /\ \/ Step(r, Exit(rr, "failed", "Chown"))
                 \/ Step(r, [rr EXCEPT !.pc = After(rr.pc)])
    /\ UNCHANGED <<configFile, pubkeyFile, binDir, benchVars, envVars, pkgVars, svcVars>>

\* a snapshot that records the digest where the version belongs
snapshot_app_version_Digest(snapshot, metadata) ==
    [snapshot EXCEPT !.app_version = Some(metadata.digest)]

\* snapshot.app_version = metadata.version.clone()
snapshot_app_version(snapshot, metadata) ==
    [snapshot EXCEPT !.app_version = Some(metadata.version)]

\* read_env_config, env_to_install_config, snapshot.app_version =
\* metadata.version, write_env_config
WriteConfig(r) ==
    /\ run[r].pc = "write_config"
    /\ LET rr == run[r]
           env == read_env_config(configFile)
           snapshot == env_to_install_config(env[1])
           wrote == [rr EXCEPT !.touched = @ \cup {"config"}]
       IN  IF env = None
           THEN Step(r, Exit(rr, "failed", "MissingConfig"))
                /\ UNCHANGED configFile
           ELSE IF snapshot.err # "None"
           THEN Step(r, Exit(rr, "failed", snapshot.err))
                /\ UNCHANGED configFile
           ELSE /\ configFile' = write_env_config(
                       snapshot_app_version(snapshot.cfg, rr.metadata))
                /\ \/ Step(r, Exit(wrote, "failed", "Chown"))
                   \/ Step(r, [wrote EXCEPT !.pc = After(rr.pc)])
    /\ UNCHANGED <<pubkeyFile, binDir, wwwRoot, benchVars, envVars, pkgVars, svcVars>>

\* fn run_command_allow_fail: a failing command is only warned about
run_command_allow_fail(status) == "None"

\* fn run_command: a command that exits with a non-zero status is an error
run_command(status) == IF status # 0 THEN "Command" ELSE "None"

\* run_command("systemctl", ...)? for the two services and nginx
Restart(r) ==
    /\ StageOf(run[r].pc) = "Restarting"
    /\ \E status \in {0, 1} :
         LET rr == run[r]
             ran == [rr EXCEPT !.commands = Append(@, CommandOf(rr.pc)),
                               !.faults = IF status # 0
                                          THEN @ \cup {StageOf(rr.pc)}
                                          ELSE @]
             res == run_command(status)
         IN  IF res # "None" THEN Step(r, Exit(ran, "failed", res))
             ELSE Step(r, Advance(ran))
    /\ UNCHANGED <<configFile, pubkeyFile, binDir, wwwRoot, benchVars, envVars, pkgVars, svcVars>>

\* the process crashes or is killed
Kill(r) ==
    /\ run[r].pc \notin Ended \cup {"idle"}
    /\ Step(r, Exit(run[r], "killed", "Killed"))
    /\ UNCHANGED <<configFile, pubkeyFile, binDir, wwwRoot, benchVars, envVars, pkgVars, svcVars>>

Init ==
    /\ BenchOff
    /\ EnvOff
    /\ PkgOff
    /\ SvcOff
    /\ configFile \in ConfigFiles
    /\ pubkeyFile \in KeyFiles
    /\ binDir = [b \in BinarySet |-> OLD]
    /\ wwwRoot = Dir("full", OLD)
    /\ run = [r \in Runs |-> IdleRun]

Next ==
    \E r \in Runs :
        \/ Invoke(r)
        \/ Check(r)
        \/ DownloadSource(r)
        \/ DownloadSignature(r)
        \/ LoadKey(r)
        \/ VerifyStep(r)
        \/ Unpack(r)
        \/ Build(r)
        \/ InstallBinary(r)
        \/ PrepareAssets(r)
        \/ CopyAssets(r)
        \/ WriteConfig(r)
        \/ Restart(r)
        \/ Kill(r)

Spec == Init /\ [][Next]_vars

\* one statement of a running update: the call it makes has returned
RunStep(r) ==
    \/ Check(r)
    \/ DownloadSource(r)
    \/ DownloadSignature(r)
    \/ LoadKey(r)
    \/ VerifyStep(r)
    \/ Unpack(r)
    \/ Build(r)
    \/ InstallBinary(r)
    \/ PrepareAssets(r)
    \/ CopyAssets(r)
    \/ WriteConfig(r)
    \/ Restart(r)

NextRun ==
    \/ Invoke(1)
    \/ Check(1)
    \/ DownloadSource(1)
    \/ DownloadSignature(1)
    \/ LoadKey(1)
    \/ VerifyStep(1)
    \/ Unpack(1)
    \/ Build(1)
    \/ InstallBinary(1)
    \/ PrepareAssets(1)
    \/ CopyAssets(1)
    \/ WriteConfig(1)
    \/ Restart(1)
    \/ Kill(1)

\* one update process whose every external operation returns: a statement
\* that can run does run; nothing obliges anyone to start or to kill it
SpecRun == Init /\ [][NextRun]_vars /\ WF_vars(RunStep(1))

\* ------------------------------------------ the release manager's machine
\* the key directories a release manager can have
KeyDirs ==
    {KeyDir(NoPrivateKeyFile, NoKeyFile),
     KeyDir(SigningKeyFile(1), TrustedKeyFile(1)),
     KeyDir(SigningKeyFile(1), NoKeyFile),
     KeyDir(NoPrivateKeyFile, TrustedKeyFile(1)),
     KeyDir(GarbagePrivateKeyFile, GarbageKeyFile),
     KeyDir(PrivateKeyFile(RSA, Base64Encode(SecretBytes(1)),
                           Base64Encode(PublicBytes(1))),
            PublicKeyFile(RSA, Base64Encode(PublicBytes(1)))),
     KeyDir(PrivateKeyFile(ED25519,
                           Base64Encode(SubSeq(SecretBytes(1), 1, 31)),
                           Base64Encode(PublicBytes(1))),
            PublicKeyFile(ED25519,
                          Base64Encode(SubSeq(PublicBytes(1), 1, 31)))),
     KeyDir(PrivateKeyFile(ED25519, <<33>> \o Base64Encode(SecretBytes(1)),
                           Base64Encode(PublicBytes(1))),
            PublicKeyFile(ED25519, <<33>> \o Base64Encode(PublicBytes(1))))}

InitPackage ==
    /\ phase = "start"
    /\ signedArtifact \in {File(b) : b \in ArtifactBytes} \cup {NoFile}
    /\ signedTag \in Tags \cup {<<118, 49, 46, 48>>}
    /\ signingKey = 1
    /\ trustedKey = 1
    /\ sidecarFile \in {NoSigFile, GarbageSigFile}
    /\ checkedArtifact = NoFile
    /\ checkedSidecar = NoSigFile
    /\ verdict = NotRun
    /\ keyDir \in KeyDirs
    /\ keyResult = NotLoaded
    /\ archivePath \in {ArchiveName(p, signedTag) :
                          p \in {SOURCE_ARCHIVE_PREFIX, BINARY_ARCHIVE_PREFIX}}
    /\ sidecarPath = <<>>
    /\ HostIdle
    /\ EnvOff
    /\ PkgOff
    /\ SvcOff

\* installer --keygen --key-dir
Keygen ==
    /\ phase = "start"
    /\ \E k \in KeyIds :
         LET r == generate_signing_keypair(keyDir, k)
         IN  /\ keyDir' = r.dir
             /\ phase' = IF r.err = "None" THEN "keygen_ok" ELSE "keygen_failed"
    /\ UNCHANGED <<signedArtifact, signedTag, signingKey, sidecarFile,
                   trustedKey, checkedArtifact, checkedSidecar, verdict,
                   keyResult, archivePath, sidecarPath>>
    /\ UNCHANGED <<hostVars, envVars, pkgVars, svcVars>>

\* package_release_artifacts: load_signing_key(signing_key_path)?
LoadSigningKey ==
    /\ phase \in {"start", "keygen_ok", "keygen_failed"}
    /\ LET r == load_signing_key(keyDir.private)
       IN  /\ keyResult' = [which |-> "private", file |-> keyDir.private,
                            err |-> r.err, key |-> r.key]
           /\ phase' = IF r.err = "None" THEN "packaged" ELSE "key_failed"
           /\ signingKey' = IF r.err = "None" THEN KeyOfSecret(r.key)
                            ELSE signingKey
    /\ UNCHANGED <<signedArtifact, signedTag, sidecarFile, trustedKey,
                   checkedArtifact, checkedSidecar, verdict, keyDir,
                   archivePath, sidecarPath>>
    /\ UNCHANGED <<hostVars, envVars, pkgVars, svcVars>>

\* a host loads the published public key: load_public_key(pubkey_path)?
LoadTrustedKey ==
    /\ phase \in {"start", "keygen_ok", "keygen_failed"}
    /\ LET r == load_public_key(keyDir.public)
       IN  /\ keyResult' = [which |-> "public", file |-> keyDir.public,
                            err |-> r.err, key |-> r.key]
           /\ phase' = IF r.err = "None" THEN "trusted" ELSE "key_failed"
           /\ trustedKey' = IF r.err = "None" THEN KeyOfPublic(r.key)
                            ELSE trustedKey
    /\ UNCHANGED <<signedArtifact, signedTag, signingKey, sidecarFile,
                   checkedArtifact, checkedSidecar, verdict, keyDir,
                   archivePath, sidecarPath>>
    /\ UNCHANGED <<hostVars, envVars, pkgVars, svcVars>>

NextPackage == Keygen \/ LoadSigningKey \/ LoadTrustedKey \/ SignRelease

SpecPackage == InitPackage /\ [][NextPackage]_vars

\* ------------------------------------------- install, reinstall, uninstall
\* determine_version: the package version of the workspace's Cargo.toml,
\* here "0.1"
WORKSPACE_VERSION == <<48, 46, 49>>
\* what the workspace's build and assets hold: content "w"
WORKSPACE == <<119>>
\* a file or directory that was removed
REMOVED == <<>>

\* main: the InstallConfig resolved from the existing config file, with the
\* defaults where it has no value, and the workspace's version
ResolveInstallConfig(existing) ==
    LET env == UnwrapOr(existing, EmptyEnv)
    IN  EnvConfig(Some(UnwrapOr(env.media_root, MEDIA_DIR)),
                  Some(UnwrapOr(env.www_root, WWW_DIR)),
                  Some(WORKSPACE_VERSION),
                  Some(UnwrapOr(env.domain_name, DOMAIN_NAME)),
                  Some(UnwrapOr(env.newtube_port, DEFAULT_NEWTUBE_PORT)),
                  Some(UnwrapOr(env.newtube_host, DEFAULT_NEWTUBE_HOST)),
                  Some(UnwrapOr(env.release_repo, DEFAULT_RELEASE_REPO)))

\* fn uninstall, as main calls it for --uninstall: the config file and the
\* binaries' directory are removed
Uninstall ==
    /\ configFile' = NoConfigFile
    /\ binDir' = [b \in BinarySet |-> REMOVED]
    /\ UNCHANGED <<pubkeyFile, wwwRoot, run, benchVars, envVars, pkgVars, svcVars>>

\* main's install path, after uninstall when --reinstall is given: fn install
\* up to the statement at which it fails, or to its end. The config file with
\* the workspace's version is written first, then the trusted key is copied
\* if the host has none, then the workspace is built and installed.
Install(reinstall) ==
    \E reached \in {"write_env_config", "install_trusted_pubkey", "end"} :
        /\ configFile' =
               write_env_config(ResolveInstallConfig(read_env_config(configFile)))
        /\ pubkeyFile' = IF reached # "write_env_config"
                            /\ pubkeyFile.kind = "missing"
                         THEN TrustedKeyFile(1) ELSE pubkeyFile
        /\ binDir' = IF reached = "end" THEN [b \in BinarySet |-> WORKSPACE]
                     ELSE IF reinstall THEN [b \in BinarySet |-> REMOVED]
                     ELSE binDir
        /\ wwwRoot' = IF reached = "end" THEN Dir("full", WORKSPACE)
                      ELSE wwwRoot
        /\ UNCHANGED <<run, benchVars, envVars, pkgVars, svcVars>>

\* a host on which the operator installs, reinstalls and uninstalls, and on
\* which one update run at a time is started
NextInstall ==
    \/ Uninstall
    \/ \E reinstall \in BOOLEAN : Install(reinstall)
    \/ Invoke(1)
    \/ Check(1)
    \/ DownloadSource(1)
    \/ DownloadSignature(1)
    \/ LoadKey(1)
    \/ VerifyStep(1)
    \/ Unpack(1)
    \/ Build(1)
    \/ InstallBinary(1)
    \/ PrepareAssets(1)
    \/ CopyAssets(1)
    \/ WriteConfig(1)
    \/ Restart(1)
    \/ Kill(1)

SpecInstall == Init /\ [][NextInstall]_vars

\* ------------------------------------------ rewriting the config file
\* apply_signed_source_archive, lines 1590-1598: the config file is read,
\* turned into an InstallConfig, given the version and written back
rewrite_env_text(file, metadata) ==
    LET env == read_env_text(file)
    IN  IF env.err # "None" THEN [err |-> env.err, written |-> file]
        ELSE IF env.cfg = None THEN [err |-> "MissingConfig", written |-> file]
        ELSE LET snapshot == env_to_install_config(env.cfg[1])
             IN  IF snapshot.err # "None"
                 THEN [err |-> snapshot.err, written |-> file]
                 ELSE [err |-> "None",
                       written |-> write_env_text(
                           snapshot_app_version(snapshot.cfg, metadata))]

\* the lines a config file can be made of
MediaLine == <<77, 69, 68, 73, 65, 95, 82, 79, 79, 84, 61, 34, 47, 121, 116, 34, 10>>
WwwLine == <<87, 87, 87, 95, 82, 79, 79, 84, 61, 34, 47, 119, 119, 119, 34, 10>>
DomainLine == <<68, 79, 77, 65, 73, 78, 95, 78, 65, 77, 69, 61, 34, 100, 46, 105, 111, 34, 10>>
\* absent, NEWTUBE_PORT="8080", NEWTUBE_PORT=9000, NEWTUBE_PORT="x"
PortLines ==
    {<<>>, <<78, 69, 87, 84, 85, 66, 69, 95, 80, 79, 82, 84, 61, 34, 56, 48, 56, 48, 34, 10>>,
     <<78, 69, 87, 84, 85, 66, 69, 95, 80, 79, 82, 84, 61, 57, 48, 48, 48, 10>>,
     <<78, 69, 87, 84, 85, 66, 69, 95, 80, 79, 82, 84, 61, 34, 120, 34, 10>>}
\* absent, NEWTUBE_HOST="h"
HostLines == {<<>>, <<78, 69, 87, 84, 85, 66, 69, 95, 72, 79, 83, 84, 61, 34, 104, 34, 10>>}
\* absent, RELEASE_REPO="o/r", RELEASE_REPO=""
RepoLines ==
    {<<>>, <<82, 69, 76, 69, 65, 83, 69, 95, 82, 69, 80, 79, 61, 34, 111, 47, 114, 34, 10>>,
     <<82, 69, 76, 69, 65, 83, 69, 95, 82, 69, 80, 79, 61, 34, 34, 10>>}
\* absent, APP_VERSION="v1"
VersionLines == {<<>>, <<65, 80, 80, 95, 86, 69, 82, 83, 73, 79, 78, 61, 34, 118, 49, 34, 10>>}
\* nothing, a comment "# c", another program's key "TZ=UTC"
OtherLines == {<<>>, <<35, 32, 99, 10>>, <<84, 90, 61, 85, 84, 67, 10>>}

\* the config files a host can have
EnvTexts ==
    {NoEnvText}
    \cup {EnvText(o \o MediaLine \o WwwLine \o p \o h \o v \o DomainLine \o r) :
            o \in OtherLines, p \in PortLines, h \in HostLines,
            v \in VersionLines, r \in RepoLines}

\* the verified signature records of the two releases
VerifiedRecords ==
    {SignedBy(1, SourceArchive(t), t).payload : t \in ReleaseTags}

InitConfig ==
    /\ envFile \in EnvTexts
    /\ envBefore = NoEnvText
    /\ envRead = NotRead
    /\ envWrote = None
    /\ envPhase = "start"
    /\ BenchOff
    /\ HostIdle
    /\ PkgOff
    /\ SvcOff

\* the applier's rewrite of the config file at the Installing step
RewriteEnv ==
    /\ envPhase = "start"
    /\ \E metadata \in VerifiedRecords :
         LET r == rewrite_env_text(envFile, metadata)
         IN  /\ envFile' = r.written
             /\ envBefore' = envFile
             /\ envPhase' = IF r.err = "None" THEN "rewritten"
                            ELSE "rewrite_failed"
    /\ UNCHANGED <<envRead, envWrote, hostVars, benchVars, pkgVars, svcVars>>

\* the next read of the config file, by an update check
ReadEnv ==
    /\ envPhase \in {"start", "rewritten"}
    /\ envRead' = read_env_text(envFile)
    /\ envPhase' = IF envPhase = "start" THEN "read" ELSE "read_back"
    /\ UNCHANGED <<envFile, envBefore, envWrote, hostVars, benchVars, pkgVars, svcVars>>

NextConfig == RewriteEnv \/ ReadEnv

SpecConfig == InitConfig /\ [][NextConfig]_vars

\* ------------------------------------- writing the config file and reading it
\* the media roots an operator can pass with --media-root (any path):
\* /yt, /y" and /y followed by a space
MediaRoots == {MEDIA_DIR, <<47, 121, 34>>, <<47, 121, 32>>}
\* the listen addresses validate_host accepts: 127.0.0.1 and ::1
ListenHosts == {DEFAULT_NEWTUBE_HOST, <<58, 58, 49>>}
\* the repositories normalize_release_repo returns: the default and o/r
ReleaseRepos == {DEFAULT_RELEASE_REPO, <<111, 47, 114>>}
ListenPorts == {0, DEFAULT_NEWTUBE_PORT, 65535}

\* the InstallConfig values install and the applier hand to write_env_config
InstallConfigs ==
    {EnvConfig(Some(m), Some(WWW_DIR), Some(v), Some(DOMAIN_NAME), Some(p),
               Some(h), Some(r)) :
        m \in MediaRoots, v \in ReleaseTags \cup {UNKNOWN}, p \in ListenPorts,
        h \in ListenHosts, r \in ReleaseRepos}

InitRoundTrip ==
    /\ envFile = NoEnvText
    /\ envBefore = NoEnvText
    /\ envRead = NotRead
    /\ envWrote = None
    /\ envPhase = "start"
    /\ BenchOff
    /\ HostIdle
    /\ PkgOff
    /\ SvcOff

\* write_env_config(&cfg)
WriteEnv ==
    /\ envPhase = "start"
    /\ \E cfg \in InstallConfigs :
         /\ envFile' = write_env_text(cfg)
         /\ envWrote' = Some(cfg)
    /\ envBefore' = envFile
    /\ envPhase' = "written"
    /\ UNCHANGED <<envRead, hostVars, benchVars, pkgVars, svcVars>>

\* read_env_config of the file just written
ReadBack ==
    /\ envPhase = "written"
    /\ envRead' = read_env_text(envFile)
    /\ envPhase' = "reread"
    /\ UNCHANGED <<envFile, envBefore, envWrote, hostVars, benchVars, pkgVars, svcVars>>

NextRoundTrip == WriteEnv \/ ReadBack

SpecRoundTrip == InitRoundTrip /\ [][NextRoundTrip]_vars

\* ------------------------------------------------ building the archives
\* an entry of a directory tree or of an archive
Entry(path, kind) == [path |-> path, kind |-> kind]

\* "source", "bundle"
SOURCE_ROOT_DIR == "source"
BINARY_ROOT_DIR == "bundle"

\* const FRONTEND_SKIP_ENTRIES
FRONTEND_SKIP_ENTRIES ==
    {".git", ".github", "node_modules", "coverage", "cypress", "tests",
     "target", "src", "Cargo.lock", "Cargo.toml", "package.json",
     "package-lock.json", "README.md", "LICENSE"}

\* fn should_skip_source_entry: the first component of the relative path
should_skip_source_entry(rel) ==
    IF rel = <<>> THEN FALSE
    ELSE rel[1] \in {".git", "target", "node_modules", "coverage"}

\* WalkDir lists an entry when every directory above it can be read; an
\* entry it cannot list is an error, which filter_map(|e| e.ok()) drops
Listed(tree, f) ==
    \A i \in 1..(Len(f.path) - 1) :
        Entry(SubSeq(f.path, 1, i), "locked") \notin tree

\* the kind of a tree entry as file_type() reports it
FileType(kind) == IF kind = "locked" THEN "dir" ELSE kind

\* the loop of package_source_archive: the entries appended to the archive
SourceEntries(tree) ==
    {Entry(<<SOURCE_ROOT_DIR>> \o e.path, FileType(e.kind)) :
        e \in {f \in tree : /\ f.path # <<>>
                            /\ Listed(tree, f)
                            /\ ~should_skip_source_entry(f.path)
                            /\ FileType(f.kind) \in {"dir", "file"}}}

\* a copy that leaves out the binaries that were not built
copy_release_binaries_for_archive_Skipping(built) ==
    [err |-> "None", staged |-> built]

\* fn copy_release_binaries_for_archive: every binary of the list must be
\* in target/release
copy_release_binaries_for_archive(built) ==
    IF \E i \in 1..Len(Binaries) : Binaries[i] \notin built
    THEN [err |-> "MissingBinary", staged |-> {}]
    ELSE [err |-> "None", staged |-> BinarySet]

\* builder.append_dir_all of the staged bin and www directories; www holds
\* what copy_frontend_assets copies: the top-level entries it does not skip,
\* with what is below the directories among them
BundleEntries(staged, tree) ==
    {Entry(<<BINARY_ROOT_DIR, "bin">>, "dir"),
     Entry(<<BINARY_ROOT_DIR, "www">>, "dir")}
    \cup {Entry(<<BINARY_ROOT_DIR, "bin", b>>, "file") : b \in staged}
    \cup {Entry(<<BINARY_ROOT_DIR, "www">> \o e.path, FileType(e.kind)) :
            e \in {f \in tree : /\ f.path # <<>>
                                /\ f.path[1] \notin FRONTEND_SKIP_ENTRIES
                                /\ FileType(f.kind) \in {"dir", "file"}}}

\* copy_frontend_assets reads every directory it copies: entry? fails on
\* one it cannot read
FrontendReadable(tree) ==
    \A f \in tree : f.kind = "locked" => f.path[1] \in FRONTEND_SKIP_ENTRIES

\* the trees a workspace can hold; a "locked" entry is a directory that
\* cannot be read
BaseTree ==
    {Entry(<<"Cargo.toml">>, "file"), Entry(<<"src">>, "dir"),
     Entry(<<"src", "lib.rs">>, "file"), Entry(<<"index.html">>, "file")}
TreeParts ==
    {{Entry(<<".git">>, "dir"), Entry(<<".git", "HEAD">>, "file")},
     {Entry(<<"target">>, "dir"), Entry(<<"target", "release">>, "dir"),
      Entry(<<"target", "release", "backend">>, "file")},
     {Entry(<<"web">>, "dir"), Entry(<<"web", "node_modules">>, "dir"),
      Entry(<<"web", "node_modules", "x.js">>, "file")},
     {Entry(<<"latest">>, "symlink")},
     {Entry(<<"docs">>, "locked"), Entry(<<"docs", "a.md">>, "file")}}
Trees == {BaseTree \cup UNION parts : parts \in SUBSET TreeParts}

\* the order of the statements of package_release_artifacts, with a
\* signature made as soon as the archive file has been created
PackageAfter_SignEarly(pc) ==
    CASE pc = "build" -> "source_write"
      [] pc = "source_write" -> "load_key"
      [] pc = "load_key" -> "sign_source"
      [] pc = "sign_source" -> "source_finish"
      [] pc = "source_finish" -> "bundle_stage"
      [] pc = "bundle_stage" -> "bundle_write"
      [] pc = "bundle_write" -> "bundle_finish"
      [] pc = "bundle_finish" -> "sign_bundle"
      [] OTHER -> "done"

\* the order of the statements of package_release_artifacts
PackageAfter(pc) ==
    CASE pc = "build" -> "source_write"
      [] pc = "source_write" -> "source_finish"
      [] pc = "source_finish" -> "bundle_stage"
      [] pc = "bundle_stage" -> "bundle_write"
      [] pc = "bundle_write" -> "bundle_finish"
      [] pc = "bundle_finish" -> "load_key"
      [] pc = "load_key" -> "sign_source"
      [] pc = "sign_source" -> "sign_bundle"
      [] OTHER -> "done"

PkgFail(err) == pkg' = [pkg EXCEPT !.pc = "failed", !.error = err]
PkgAdvance == pkg' = [pkg EXCEPT !.pc = PackageAfter(pkg.pc)]

InitArchive ==
    /\ workspace \in [tree : Trees, built : BuildOutputs,
                      key_file : {SigningKeyFile(1), NoPrivateKeyFile}]
    /\ outDir = EmptyOutDir
    /\ pkg \in [pc : {"build"}, error : {"None"}, tag : ReleaseTags, key : {0}]
    /\ BenchOff
    /\ HostIdle
    /\ EnvOff
    /\ SvcOff

\* run_command_in_dir("cargo", ["build", "--release"], repo_root)?
PkgBuild ==
    /\ pkg.pc = "build"
    /\ PkgFail("BuildFailure") \/ PkgAdvance
    /\ UNCHANGED <<workspace, outDir, hostVars, benchVars, envVars, svcVars>>

\* package_source_archive: File::create(dest) and the loop that appends the
\* entries; the file is there, without the end of the archive
PkgSourceWrite ==
    /\ pkg.pc = "source_write"
    /\ \/ /\ outDir' = [outDir EXCEPT
                           !.src = Truncated(SourceArchive(pkg.tag))]
          /\ PkgFail("Io")
       \/ /\ outDir' = [outDir EXCEPT
                           !.src = Truncated(SourceArchive(pkg.tag)),
                           !.src_entries = SourceEntries(workspace.tree)]
          /\ PkgAdvance
    /\ UNCHANGED <<workspace, hostVars, benchVars, envVars, svcVars>>

\* package_source_archive: builder.finish()?, the encoder's finish()?, and
\* the file is closed when the function returns
PkgSourceFinish ==
    /\ pkg.pc = "source_finish"
    /\ \/ PkgFail("Io") /\ UNCHANGED outDir
       \/ /\ outDir' = [outDir EXCEPT !.src = SourceArchive(pkg.tag)]
          /\ PkgAdvance
    /\ UNCHANGED <<workspace, hostVars, benchVars, envVars, svcVars>>

\* package_binary_archive up to File::create: the binaries and the frontend
\* are copied into a temporary directory
PkgBundleStage ==
    /\ pkg.pc = "bundle_stage"
    /\ LET r == copy_release_binaries_for_archive(workspace.built)
       IN  IF r.err # "None" THEN PkgFail(r.err) /\ UNCHANGED outDir
           ELSE IF ~FrontendReadable(workspace.tree)
           THEN PkgFail("Io") /\ UNCHANGED outDir
           ELSE \/ PkgFail("Io") /\ UNCHANGED outDir
                \/ /\ outDir' = [outDir EXCEPT !.bin_entries =
                                    BundleEntries(r.staged, workspace.tree)]
                   /\ PkgAdvance
    /\ UNCHANGED <<workspace, hostVars, benchVars, envVars, svcVars>>

\* package_binary_archive: File::create(dest) and the two append_dir_all
PkgBundleWrite ==
    /\ pkg.pc = "bundle_write"
    /\ outDir' = [outDir EXCEPT !.bin = Truncated(BinaryBundle(pkg.tag))]
    /\ PkgFail("Io") \/ PkgAdvance
    /\ UNCHANGED <<workspace, hostVars, benchVars, envVars, svcVars>>

\* package_binary_archive: builder.finish()? and the encoder's finish()?
PkgBundleFinish ==
    /\ pkg.pc = "bundle_finish"
    /\ \/ PkgFail("Io") /\ UNCHANGED outDir
       \/ /\ outDir' = [outDir EXCEPT !.bin = BinaryBundle(pkg.tag)]
          /\ PkgAdvance
    /\ UNCHANGED <<workspace, hostVars, benchVars, envVars, svcVars>>

\* let signing_key = load_signing_key(signing_key_path)?
PkgLoadKey ==
    /\ pkg.pc = "load_key"
    /\ LET r == load_signing_key(workspace.key_file)
       IN  IF r.err # "None" THEN PkgFail(r.err)
           ELSE pkg' = [pkg EXCEPT !.pc = PackageAfter(pkg.pc),
                                   !.key = KeyOfSecret(r.key)]
    /\ UNCHANGED <<workspace, outDir, hostVars, benchVars, envVars, svcVars>>

\* sign_release_file(&src_path, ...)?
PkgSignSource ==
    /\ pkg.pc = "sign_source"
    /\ LET r == sign_release_file(outDir.src, pkg.key, pkg.tag)
       IN  IF r.err # "None" THEN PkgFail(r.err) /\ UNCHANGED outDir
           ELSE /\ outDir' = [outDir EXCEPT !.src_sig = r.written]
                /\ PkgAdvance
    /\ UNCHANGED <<workspace, hostVars, benchVars, envVars, svcVars>>

\* sign_release_file(&bin_path, ...)?
PkgSignBundle ==
    /\ pkg.pc = "sign_bundle"
    /\ LET r == sign_release_file(outDir.bin, pkg.key, pkg.tag)
       IN  IF r.err # "None" THEN PkgFail(r.err) /\ UNCHANGED outDir
           ELSE /\ outDir' = [outDir EXCEPT !.bin_sig = r.written]
                /\ PkgAdvance
    /\ UNCHANGED <<workspace, hostVars, benchVars, envVars, svcVars>>

NextArchive ==
    \/ PkgBuild
    \/ PkgSourceWrite
    \/ PkgSourceFinish
    \/ PkgBundleStage
    \/ PkgBundleWrite
    \/ PkgBundleFinish
    \/ PkgLoadKey
    \/ PkgSignSource
    \/ PkgSignBundle

SpecArchive == InitArchive /\ [][NextArchive]_vars

\* ------------------------------------------------- the backend's API cache
\* the ids requests ask for, the revisions a row goes through, and the
\* requests in flight at once (each serves one call)
VideoIds == {"alpha", "ghost"}
Revisions == {1, 2}
Requests == {1, 2, 3}

\* struct VideoRecord, as far as its identity and content go
VideoRecord(videoid, rev) == [videoid |-> videoid, rev |-> rev]

\* Arc<BootstrapPayload>: the allocation (made by one request) and the rows
\* it was built from
BootstrapPayload(obj, rows) == [obj |-> obj, videos |-> rows]

IdleRequest ==
    [pc |-> "idle", op |-> "none", videoid |-> "", loaded |-> None,
     status |-> 0, result |-> None, after |-> None]

\* Ok(value) or Err(ApiError) handed back to the route
Respond(rq, status, result) ==
    [rq EXCEPT !.pc = "returned", !.status = status, !.result = result,
               !.loaded = None]

\* the first payload get_bootstrap returned stays on record
Serve(status, result) ==
    IF served = None /\ status = 200 THEN result ELSE served

InitBackend ==
    /\ db \in [VideoIds -> {0} \cup Revisions]
    /\ bootstrap = None
    /\ details = [v \in VideoIds |-> None]
    /\ req = [p \in Requests |-> IdleRequest]
    /\ served = None
    /\ DlOff
    /\ BenchOff
    /\ HostIdle
    /\ EnvOff
    /\ PkgOff

\* a get_bootstrap that waits for the cached payload of a load under way
\* instead of loading again
BootstrapBegin_Single(p) ==
    /\ req[p].pc = "idle"
    /\ \A q \in Requests : ~(req[q].op = "bootstrap" /\ req[q].pc \in {"load", "store"})
    /\ LET rq == [req[p] EXCEPT !.op = "bootstrap", !.after = served]
       IN  IF bootstrap # None
           THEN /\ req' = [req EXCEPT ![p] = Respond(rq, 200, bootstrap)]
                /\ served' = Serve(200, bootstrap)
           ELSE /\ req' = [req EXCEPT ![p] = [rq EXCEPT !.pc = "load"]]
                /\ UNCHANGED served
    /\ UNCHANGED <<db, bootstrap, details, dlVars, benchVars, hostVars, envVars, pkgVars>>

\* get_bootstrap up to its first await: the read of the cache
BootstrapBegin(p) ==
    /\ req[p].pc = "idle"
    /\ LET rq == [req[p] EXCEPT !.op = "bootstrap", !.after = served]
       IN  IF bootstrap # None
           THEN /\ req' = [req EXCEPT ![p] = Respond(rq, 200, bootstrap)]
                /\ served' = Serve(200, bootstrap)
           ELSE /\ req' = [req EXCEPT ![p] = [rq EXCEPT !.pc = "load"]]
                /\ UNCHANGED served
    /\ UNCHANGED <<db, bootstrap, details, dlVars, benchVars, hostVars, envVars, pkgVars>>

\* the blocking task: the four list queries, or an error of one of them
BootstrapLoad(p) ==
    /\ req[p].op = "bootstrap"
    /\ req[p].pc = "load"
    /\ \/ req' = [req EXCEPT ![p] = Respond(@, 500, None)]
       \/ req' = [req EXCEPT ![p] = [@ EXCEPT !.pc = "store",
                     !.loaded = Some(BootstrapPayload(p, db))]]
    /\ UNCHANGED <<db, bootstrap, details, served, dlVars, benchVars, hostVars, envVars, pkgVars>>

\* after the await: cache.bootstrap.write().replace(payload.clone())
BootstrapStore(p) ==
    /\ req[p].op = "bootstrap"
    /\ req[p].pc = "store"
    /\ bootstrap' = req[p].loaded
    /\ req' = [req EXCEPT ![p] = Respond(@, 200, req[p].loaded)]
    /\ served' = Serve(200, req[p].loaded)
    /\ UNCHANGED <<db, details, dlVars, benchVars, hostVars, envVars, pkgVars>>

\* get_media up to its first await: the read of the details cache
MediaBegin(p, videoid) ==
    /\ req[p].pc = "idle"
    /\ LET rq == [req[p] EXCEPT !.op = "media", !.videoid = videoid]
       IN  IF details[videoid] # None
           THEN req' = [req EXCEPT ![p] = Respond(rq, 200, details[videoid])]
           ELSE req' = [req EXCEPT ![p] = [rq EXCEPT !.pc = "load"]]
    /\ UNCHANGED <<db, bootstrap, details, served, dlVars, benchVars, hostVars, envVars, pkgVars>>

\* the blocking task: reader.get_video(&videoid), or its error
MediaLoad(p) ==
    /\ req[p].op = "media"
    /\ req[p].pc = "load"
    /\ LET row == db[req[p].videoid]
       IN  \/ req' = [req EXCEPT ![p] = Respond(@, 500, None)]
           \/ req' = [req EXCEPT ![p] = [@ EXCEPT !.pc = "store",
                         !.loaded = IF row = 0 THEN None
                                    ELSE Some(VideoRecord(req[p].videoid, row))]]
    /\ UNCHANGED <<db, bootstrap, details, served, dlVars, benchVars, hostVars, envVars, pkgVars>>

\* a get_media that remembers the ids it did not find
MediaStore_CachingMisses(p) ==
    /\ req[p].op = "media"
    /\ req[p].pc = "store"
    /\ IF req[p].loaded = None
       THEN /\ req' = [req EXCEPT ![p] = Respond(@, 404, None)]
            /\ details' = [details EXCEPT ![req[p].videoid] =
                              Some(VideoRecord(req[p].videoid, 0))]
       ELSE /\ details' = [details EXCEPT ![req[p].videoid] = req[p].loaded]
            /\ req' = [req EXCEPT ![p] = Respond(@, 200, req[p].loaded)]
    /\ UNCHANGED <<db, bootstrap, served, dlVars, benchVars, hostVars, envVars, pkgVars>>

\* after the await: result.ok_or_else(not_found)?, then the insert
MediaStore(p) ==
    /\ req[p].op = "media"
    /\ req[p].pc = "store"
    /\ IF req[p].loaded = None
       THEN /\ req' = [req EXCEPT ![p] = Respond(@, 404, None)]
            /\ UNCHANGED details
       ELSE /\ details' = [details EXCEPT ![req[p].videoid] = req[p].loaded]
            /\ req' = [req EXCEPT ![p] = Respond(@, 200, req[p].loaded)]
    /\ UNCHANGED <<db, bootstrap, served, dlVars, benchVars, hostVars, envVars, pkgVars>>

\* the downloader, or anyone, writes to the database: a row is inserted,
\* refreshed or deleted
DbWrite(videoid) ==
    /\ \E rev \in ({0} \cup Revisions) \ {db[videoid]} :
         db' = [db EXCEPT ![videoid] = rev]
    /\ UNCHANGED <<bootstrap, details, req, served, dlVars, benchVars, hostVars, envVars, pkgVars>>

NextBackend ==
    \/ \E p \in Requests : BootstrapBegin(p)
    \/ \E p \in Requests : BootstrapLoad(p)
    \/ \E p \in Requests : BootstrapStore(p)
    \/ \E p \in Requests, videoid \in VideoIds : MediaBegin(p, videoid)
    \/ \E p \in Requests : MediaLoad(p)
    \/ \E p \in Requests : MediaStore(p)
    \/ \E videoid \in VideoIds : DbWrite(videoid)

SpecBackend == InitBackend /\ [][NextBackend]_vars

\* --------------------------------------------------- the channel downloader
\* the channel's list as get_video_ids returns it, the muxed formats of a
\* video, and the passes (one run of the program each)
ChannelIds == <<"a", "b">>
ChannelIdSet == {ChannelIds[i] : i \in 1..Len(ChannelIds)}
Formats == {"18", "22"}
Passes == {1, 2}

\* one thing a pass did to an entry
Event(ev, pass, videoid, got) ==
    [ev |-> ev, pass |-> pass, videoid |-> videoid, got |-> got]

\* fn load_archive: the last word of every line of the file
load_archive(file) == file

InitDownloader ==
    /\ archiveFile = {}
    /\ archiveSet = {}
    /\ mediaFiles = [v \in ChannelIdSet |-> {}]
    /\ dl = [pc |-> "idle", pass |-> 0, index |-> 1]
    /\ dlLog = <<>>
    /\ ApiOff
    /\ BenchOff
    /\ HostIdle
    /\ EnvOff
    /\ PkgOff

\* the entry the pass is at
Current == ChannelIds[dl.index]

\* the loop of download_collection goes on with the next id, whatever
\* process_media_entry returned
NextEntry ==
    IF dl.index = Len(ChannelIds)
    THEN [dl EXCEPT !.pc = "finished", !.index = 1]
    ELSE [dl EXCEPT !.pc = "entry", !.index = @ + 1]

\* main: load_archive, then download_collection's get_video_ids(...)?
StartPass ==
    /\ dl.pc \in {"idle", "finished", "failed"}
    /\ dl.pass + 1 \in Passes
    /\ archiveSet' = load_archive(archiveFile)
    /\ \/ dl' = [dl EXCEPT !.pc = "failed", !.pass = @ + 1, !.index = 1]
       \/ dl' = [dl EXCEPT !.pc = "entry", !.pass = @ + 1, !.index = 1]
    /\ UNCHANGED <<archiveFile, mediaFiles, dlLog, apiVars, benchVars, hostVars, envVars, pkgVars>>

\* process_media_entry: already_downloaded = archive.contains(video_id)
EnterEntry ==
    /\ dl.pc = "entry"
    /\ dl' = [dl EXCEPT !.pc = IF Current \in archiveSet THEN "refresh"
                               ELSE "download"]
    /\ UNCHANGED <<archiveFile, archiveSet, mediaFiles, dlLog, apiVars, benchVars, hostVars, envVars, pkgVars>>

\* a download that reports a failure unless every format was fetched
Download_Strict ==
    /\ dl.pc = "download"
    /\ \/ /\ \E got \in (SUBSET Formats) \ {Formats} :
               mediaFiles' = [mediaFiles EXCEPT ![Current] = @ \cup got]
          /\ dlLog' = Append(dlLog, Event("download_err", dl.pass, Current, {}))
          /\ dl' = [dl EXCEPT !.pc = "refresh"]
       \/ /\ mediaFiles' = [mediaFiles EXCEPT ![Current] = Formats]
          /\ dlLog' = Append(dlLog, Event("download_ok", dl.pass, Current, Formats))
          /\ dl' = [dl EXCEPT !.pc = "append"]
    /\ UNCHANGED <<archiveFile, archiveSet, apiVars, benchVars, hostVars, envVars, pkgVars>>

\* download_video_all_formats: Err when the directory cannot be made or the
\* formats cannot be listed; otherwise Ok(()), whichever of the formats
\* (none, some, all) yt-dlp fetched
Download ==
    /\ dl.pc = "download"
    /\ \/ /\ dlLog' = Append(dlLog, Event("download_err", dl.pass, Current, {}))
          /\ dl' = [dl EXCEPT !.pc = "refresh"]
          /\ UNCHANGED mediaFiles
       \/ \E got \in SUBSET Formats :
            /\ mediaFiles' = [mediaFiles EXCEPT ![Current] = @ \cup got]
            /\ dlLog' = Append(dlLog, Event("download_ok", dl.pass, Current, got))
            /\ dl' = [dl EXCEPT !.pc = "append"]
    /\ UNCHANGED <<archiveFile, archiveSet, apiVars, benchVars, hostVars, envVars, pkgVars>>

\* append_to_archive(&paths.archive, video_id)?; archive.insert(video_id):
\* when the append fails process_media_entry returns the error at once
Archive ==
    /\ dl.pc = "append"
    /\ \/ /\ dlLog' = Append(dlLog, Event("archive_err", dl.pass, Current, {}))
          /\ dl' = NextEntry
          /\ UNCHANGED <<archiveFile, archiveSet>>
       \/ /\ archiveFile' = archiveFile \cup {Current}
          /\ archiveSet' = archiveSet \cup {Current}
          /\ dlLog' = Append(dlLog, Event("archive", dl.pass, Current, {}))
          /\ dl' = [dl EXCEPT !.pc = "refresh"]
    /\ UNCHANGED <<mediaFiles, apiVars, benchVars, hostVars, envVars, pkgVars>>

\* refresh_metadata, whose error is only warned about
Refresh ==
    /\ dl.pc = "refresh"
    /\ \E ev \in {"refresh", "refresh_err"} :
         dlLog' = Append(dlLog, Event(ev, dl.pass, Current, {}))
    /\ dl' = NextEntry
    /\ UNCHANGED <<archiveFile, archiveSet, mediaFiles, apiVars, benchVars, hostVars, envVars, pkgVars>>

NextDownloader ==
    \/ StartPass
    \/ EnterEntry
    \/ Download
    \/ Archive
    \/ Refresh

SpecDownloader == InitDownloader /\ [][NextDownloader]_vars
\* ------------------------------------------------ properties of the verifier
\* the texts differ in exactly one byte
OneByteChanged(s, t) ==
    /\ Len(s) = Len(t)
    /\ Cardinality({i \in 1..Len(s) : s[i] # t[i]}) = 1

\* the verifier was given the pair exactly as the packager wrote it
GivenAsSigned ==
    /\ phase = "verified"
    /\ checkedArtifact = signedArtifact
    /\ checkedSidecar = sidecarFile

\* C8: verifying an artifact against the sidecar made by signing it as tag T
\* with key pair K, under K's public key, succeeds and returns a record whose
\* version is T and whose digest is the artifact's digest.
C8_RoundTrip ==
    (GivenAsSigned /\ trustedKey = signingKey) =>
        /\ verdict.err = "None"
        /\ verdict.payload.version = signedTag
        /\ verdict.payload.digest = ToHex(Blake3(signedArtifact.bytes))

C8_Witness ==
    /\ GivenAsSigned
    /\ trustedKey = signingKey
    /\ signedTag = <<118, 50>>
    /\ Len(signedArtifact.bytes) = MaxArtifactLen
    /\ verdict.err = "None"

\* the verifier digested the artifact and the digest is not the recorded one
DigestDiffers ==
    /\ phase = "verified"
    /\ verdict.hashed
    /\ checkedArtifact.exists
    /\ checkedSidecar.kind = "json"
    /\ ToHex(Blake3(checkedArtifact.bytes)) # checkedSidecar.payload.digest

\* C9: whenever the recomputed digest differs from the digest recorded in the
\* sidecar, verification fails with the checksum-mismatch error and
\* verify_strict is not called, whether the signature field is valid, invalid
\* or malformed; a signature made for A checked against another artifact B
\* gives checksum mismatch.
C9_ChecksumBeforeSignature ==
    DigestDiffers => (verdict.err = "ChecksumMismatch" /\ ~verdict.checked)

\* a digest mismatch met with a signature field that is not even base64
C9_Witness ==
    /\ DigestDiffers
    /\ checkedArtifact # signedArtifact
    /\ ~Base64Decode(checkedSidecar.payload.signature).ok
    /\ verdict.err = "ChecksumMismatch"

\* the artifact is intact and one byte of the signature field was changed
SignatureByteChanged ==
    /\ phase = "verified"
    /\ checkedArtifact = signedArtifact
    /\ checkedSidecar.kind = "json"
    /\ checkedSidecar.payload.format = sidecarFile.payload.format
    /\ checkedSidecar.payload.version = sidecarFile.payload.version
    /\ checkedSidecar.payload.digest = sidecarFile.payload.digest
    /\ OneByteChanged(checkedSidecar.payload.signature,
                      sidecarFile.payload.signature)

\* C10 as stated: with the artifact intact, changing any byte of the base64
\* signature field makes verification fail with the signature-invalid error.
C10_AsClaimed ==
    SignatureByteChanged => verdict.err = "SignatureInvalid"

\* C10 as amended: with the artifact intact, changing any byte of the base64
\* signature field makes verification fail, never with checksum mismatch:
\* with the signature-invalid error when the field is still the base64 of 64
\* bytes, with a base64 decode error when it is no longer canonical base64,
\* and with the signature length error when it decodes to another length.
C10_SignatureTamperFails ==
    SignatureByteChanged =>
        LET decoded == Base64Decode(checkedSidecar.payload.signature)
        IN  /\ verdict.err \in
                 {"SignatureInvalid", "Base64Decode", "InvalidSignatureLength"}
            /\ verdict.err = "Base64Decode" <=> ~decoded.ok
            /\ verdict.err = "SignatureInvalid" <=>
                 (decoded.ok /\ Len(decoded.bytes) = SIGNATURE_LENGTH)
            /\ verdict.hashed

\* a changed byte that is still base64, under the signer's own public key
C10_Witness ==
    /\ SignatureByteChanged
    /\ trustedKey = signingKey
    /\ verdict.err = "SignatureInvalid"
    /\ verdict.checked


\* the sidecar handed to the verifier is the signed one with only its
\* version field changed
VersionFieldChanged ==
    /\ phase = "verified"
    /\ checkedSidecar.kind = "json"
    /\ checkedSidecar.payload.format = sidecarFile.payload.format
    /\ checkedSidecar.payload.digest = sidecarFile.payload.digest
    /\ checkedSidecar.payload.signature = sidecarFile.payload.signature
    /\ checkedSidecar.payload.version # sidecarFile.payload.version

\* C12: the signed message is rebuilt from the sidecar's own version and
\* digest, so a sidecar whose version field was changed after signing, with
\* the digest and the signature left as they were, never verifies, under any
\* trusted key: with the artifact intact the signature check itself is
\* reached and fails.
C12_VersionIsSigned ==
    VersionFieldChanged =>
        /\ verdict.err # "None"
        /\ verdict.payload = NoPayload
        /\ checkedArtifact = signedArtifact =>
             (verdict.err = "SignatureInvalid" /\ verdict.checked)

C12_Witness ==
    /\ VersionFieldChanged
    /\ checkedArtifact = signedArtifact
    /\ trustedKey = signingKey
    /\ signedTag = <<118, 49>>
    /\ checkedSidecar.payload.version = <<118, 50>>
    /\ verdict.err = "SignatureInvalid"

\* the sidecar handed to the verifier parses and its format is not 1
FormatUnsupported ==
    /\ phase = "verified"
    /\ checkedSidecar.kind = "json"
    /\ checkedSidecar.payload.format # 1

\* C13: a sidecar whose format is not 1 is rejected as an unsupported format
\* before the artifact is digested and before any signature check, whatever
\* the artifact is and whether or not it can be read.
C13_FormatGateFirst ==
    FormatUnsupported =>
        /\ verdict.err = "UnsupportedFormat"
        /\ ~verdict.hashed
        /\ ~verdict.checked
        /\ verdict.payload = NoPayload

\* format 2 met with an artifact that cannot be read
C13_Witness ==
    /\ FormatUnsupported
    /\ checkedSidecar.payload.format = 2
    /\ ~checkedArtifact.exists
    /\ verdict.err = "UnsupportedFormat"

\* ------------------------------------------------ key files and packaging
\* the key file just loaded parsed as JSON and carries another algorithm tag
OtherAlgorithmLoaded ==
    /\ keyResult.which # "none"
    /\ keyResult.file.kind = "json"
    /\ keyResult.file.algorithm # ED25519

\* the key bytes of the file just loaded are well-formed: base64 of 32 bytes
WellFormedKeyBytes ==
    LET text == IF keyResult.which = "private"
                THEN keyResult.file.private_key
                ELSE keyResult.file.public_key
        decoded == Base64Decode(text)
    IN  decoded.ok /\ Len(decoded.bytes) = SECRET_KEY_LENGTH

\* C14: loading a private or a public key file whose algorithm tag is not
\* "ed25519" fails with the unsupported-algorithm error and yields no key,
\* whatever its key bytes are, and the failed load makes the run stop
C14_OtherAlgorithmRejected ==
    OtherAlgorithmLoaded =>
        /\ keyResult.err = "UnsupportedAlgorithm"
        /\ keyResult.key = <<>>
        /\ phase = "key_failed"

\* a private key file tagged "rsa" with well-formed key bytes was loaded and
\* rejected
C14_Witness ==
    /\ OtherAlgorithmLoaded
    /\ keyResult.which = "private"
    /\ WellFormedKeyBytes
    /\ keyResult.err = "UnsupportedAlgorithm"

\* C15: key generation fails when the private or the public key file is
\* already in the directory, and then leaves both files as they were
C15_KeygenKeepsExistingKeys ==
    [][(Keygen /\ (keyDir.private.kind # "missing"
                   \/ keyDir.public.kind # "missing"))
         => (phase' = "keygen_failed" /\ keyDir' = keyDir)]_vars

\* key generation failed on a directory that held only a public key
C15_Witness ==
    /\ phase = "keygen_failed"
    /\ keyDir.private.kind = "missing"
    /\ keyDir.public.kind = "json"

\* C16: when reading or digesting the artifact fails, signing creates or
\* modifies no sidecar file; a sidecar is only ever written by a signing
\* that succeeded
C16_NoPartialSignature ==
    [][(SignRelease /\ phase' = "sign_failed")
         => (sidecarFile' = sidecarFile /\ sidecarPath' = sidecarPath)]_vars

\* signing failed on a missing artifact with an older sidecar on disk
C16_Witness ==
    /\ phase = "sign_failed"
    /\ ~signedArtifact.exists
    /\ sidecarFile = GarbageSigFile

\* C17: the sidecar of <archive-prefix>-<tag>.tar.gz is written under that
\* name plus ".sig", the name the fetcher looks up
C17_SidecarNamedAfterArchive ==
    phase = "signed" => sidecarPath = archivePath \o <<46, 115, 105, 103>>

\* what the code does: the sidecar is <archive-prefix>-<tag>.tar.tar.gz.sig
C17_SidecarNameAsBuilt ==
    phase = "signed" =>
        \E p \in {SOURCE_ARCHIVE_PREFIX, BINARY_ARCHIVE_PREFIX} :
            sidecarPath = p \o <<45>> \o signedTag
                \o <<46, 116, 97, 114, 46, 116, 97, 114, 46, 103, 122,
                     46, 115, 105, 103>>

\* ------------------------------------------- properties of the applier
Live == <<configFile, binDir, wwwRoot>>

InitialBinDir == [b \in BinarySet |-> OLD]

Installed == BinarySet \cup {"www", "config"}

\* the stages after verification
PastVerifying == {"Unpacking", "Building", "Installing", "Restarting"}

\* the stages before anything is installed
BeforeInstalling ==
    {"Idle", "Checking", "Downloading", "Verifying", "Unpacking", "Building"}

\* what a valid release is, stated without the verifier: the sidecar is a
\* format-1 record whose digest is the artifact's and whose signature is the
\* one the holder of the trusted key makes over the signed message
GenuineRelease(artifact, sidecar, keyfile) ==
    /\ artifact.exists
    /\ sidecar.kind = "json"
    /\ keyfile.kind = "json"
    /\ keyfile.algorithm = ED25519
    /\ sidecar.payload.format = 1
    /\ sidecar.payload.digest = ToHex(Blake3(artifact.bytes))
    /\ \E k \in KeyIds :
         /\ keyfile.public_key = Base64Encode(PublicBytes(k))
         /\ sidecar.payload.signature =
              Base64Encode(Ed25519Sign(k,
                  RELEASE_SIG_PREFIX \o <<124, 118, 49, 124>>
                  \o sidecar.payload.version \o <<124>>
                  \o sidecar.payload.digest))

\* the valid releases among the files a run can be given
GenuineReleases ==
    UNION {IF GenuineRelease(t[1], t[2], t[3]) THEN {t} ELSE {} :
             t \in OfferedArtifacts \X OfferedSidecars \X KeyFiles}

HoldsGenuine(rr) == <<rr.artifact, rr.signature, pubkeyFile>> \in GenuineReleases

\* the step changes a live path or something a run has written
Writes(r) == Live' # Live \/ run'[r].touched # run[r].touched

\* C1: nothing is extracted, built or installed by a run, and no live path
\* is changed by it, unless the archive and sidecar it holds are a valid
\* release under the trusted key; what it installs comes from that archive
\* and the version it records is the signed one.
C1_VerifiedBeforeInstall ==
    /\ [](\A r \in Runs :
            (StageOf(run[r].pc) \in PastVerifying \/ run[r].tree # NoTree)
            => /\ HoldsGenuine(run[r])
               /\ run[r].metadata = run[r].signature.payload)
    /\ [][\A r \in Runs :
            (run'[r] # run[r] /\ Writes(r))
            => /\ StageOf(run[r].pc) = "Installing"
               /\ HoldsGenuine(run[r])
               /\ \A b \in BinarySet :
                    binDir'[b] \in {binDir[b], run[r].artifact.bytes}
               /\ wwwRoot'.from \in {wwwRoot.from, <<>>, run[r].artifact.bytes}
               /\ configFile' # configFile =>
                    configFile'.env.app_version =
                        Some(run[r].signature.payload.version)]_vars

C1_Witness ==
    \E r \in Runs :
        /\ run[r].pc = "restart_backend"
        /\ Installed \subseteq run[r].touched
        /\ HoldsGenuine(run[r])
        /\ \A b \in BinarySet : binDir[b] = run[r].artifact.bytes

\* C2: a step taken by a run that is Idle, Checking, Downloading, Verifying,
\* Unpacking or Building leaves the binary directory, the www root and the
\* config file as they were, and a run that failed or was killed in one of
\* those stages has written nothing.
C2_UntouchedBeforeInstalling ==
    /\ [][\A r \in Runs :
            (run'[r] # run[r] /\ StageOf(run[r].pc) \in BeforeInstalling)
            => /\ Live' = Live
               /\ run'[r].touched = {}
               /\ run'[r].commands = <<>>]_vars
    /\ [](\A r \in Runs :
            (run[r].pc \in {"failed", "killed"}
             /\ run[r].ended_in \in BeforeInstalling)
            => run[r].touched = {} /\ run[r].commands = <<>>)

C2_Witness ==
    /\ \E r \in Runs :
         /\ run[r].pc = "failed"
         /\ run[r].ended_in = "Building"
         /\ run[r].touched = {}
    /\ \A r \in Runs : run[r].pc \in {"idle", "failed"}
    /\ binDir = InitialBinDir
    /\ wwwRoot = Dir("full", OLD)

\* C3 (as stated): a run that ends in Failed has changed nothing on the host.
C3_FailedRunChangedNothing ==
    \A r \in Runs : run[r].pc = "failed" => run[r].touched = {}

\* C4 (as stated): at most one invocation is past Idle and not yet ended.
C4_OneRunAtATime ==
    Cardinality({r \in Runs : run[r].pc \notin Ended \cup {"idle"}}) <= 1

\* C5: a service restart or reload is issued by a run only from the
\* Restarting stage, after that run has copied every binary and the
\* frontend assets and has written the version to the config file.
C5_RestartAfterInstall ==
    /\ [][\A r \in Runs :
            run'[r].commands # run[r].commands
            => /\ StageOf(run[r].pc) = "Restarting"
               /\ Installed \subseteq run[r].touched]_vars
    /\ [](\A r \in Runs :
            run[r].commands # <<>> => Installed \subseteq run[r].touched)

C5_Witness ==
    \E r \in Runs :
        /\ run[r].pc = "done"
        /\ Len(run[r].commands) = 3
        /\ Installed \subseteq run[r].touched

\* the key file is missing, not JSON, tagged with another algorithm, not
\* base64, or not 32 bytes long
KeyUnusable(file) ==
    \/ file.kind # "json"
    \/ file.algorithm # ED25519
    \/ ~Base64Decode(file.public_key).ok
    \/ Len(Base64Decode(file.public_key).bytes) # 32

UnusableKeys == {f \in KeyFiles : KeyUnusable(f)}

\* C6 (as stated): with no usable trusted key every run fails before
\* anything is extracted, built or installed.
C6_AsClaimed ==
    pubkeyFile \in UnusableKeys
    => \A r \in Runs :
         /\ run[r].pc # "done"
         /\ StageOf(run[r].pc) \notin PastVerifying
         /\ run[r].touched = {}

\* C6: with no usable trusted key no run extracts, builds, installs or
\* restarts anything, a run that reaches key loading fails there with the
\* key's error, and the only run that succeeds is an auto-update that
\* stops at the up-to-date short-circuit.
C6_NoKeyNoUpdate ==
    /\ [](pubkeyFile \in UnusableKeys
          => /\ Live \in {<<c, InitialBinDir, Dir("full", OLD)>> :
                            c \in ConfigFiles}
             /\ \A r \in Runs :
                  /\ StageOf(run[r].pc) \notin PastVerifying
                  /\ run[r].pc # "verify"
                  /\ run[r].tree = NoTree
                  /\ run[r].touched = {}
                  /\ run[r].commands = <<>>
                  /\ run[r].pc = "done"
                     => run[r].mode = "auto" /\ run[r].ended_in = "Checking")
    /\ [][\A r \in Runs :
            (pubkeyFile \in UnusableKeys /\ run[r].pc = "load_key"
             /\ run'[r] # run[r])
            => /\ run'[r].pc \in {"failed", "killed"}
               /\ run'[r].pc = "failed" =>
                    run'[r].error \in {"Io", "Parse", "UnsupportedAlgorithm",
                                       "Base64Decode", "InvalidKeyLength"}]_vars

C6_Witness ==
    /\ pubkeyFile \in UnusableKeys
    /\ pubkeyFile.kind = "json"
    /\ pubkeyFile.algorithm = RSA
    /\ \E r \in Runs :
         /\ run[r].pc = "failed"
         /\ run[r].ended_in = "Verifying"
         /\ run[r].error = "UnsupportedAlgorithm"

\* C7: an auto-update that finds the latest release tag equal to the
\* recorded installed version ends in Done at once: its only request was the
\* release index, and it downloaded, extracted, wrote and restarted nothing.
C7_UpToDateIsNoOp ==
    /\ [][\A r \in Runs :
            (/\ run[r].pc = "check"
             /\ run'[r].latest # None
             /\ configFile.exists
             /\ configFile.env.app_version = run'[r].latest)
            => /\ run'[r].pc = "done"
               /\ run'[r].requests = << <<"releases/latest">> >>
               /\ run'[r].touched = {}
               /\ run'[r].commands = <<>>
               /\ run'[r].tree = NoTree
               /\ Live' = Live]_vars
    /\ [](\A r \in Runs :
            (run[r].pc = "done" /\ run[r].ended_in = "Checking")
            => /\ run[r].requests = << <<"releases/latest">> >>
               /\ run[r].touched = {}
               /\ run[r].commands = <<>>)

C7_Witness ==
    \E r \in Runs :
        /\ run[r].pc = "done"
        /\ run[r].ended_in = "Checking"
        /\ run[r].latest = Some(V1)
        /\ configFile.env.app_version = Some(V1)

\* the run is about to verify a valid release whose signed version is not
\* the version the caller expects
ExpectsOtherVersion(rr) ==
    /\ rr.pc = "verify"
    /\ rr.expected # None
    /\ HoldsGenuine(rr)
    /\ rr.signature.payload.version # rr.expected[1]

\* C11: when the caller supplies an expected version and the sidecar is
\* valid in format, digest and signature but names another version, the run
\* fails with the version-mismatch error, which is none of the verifier's
\* errors, and nothing is extracted, built or installed.
C11_VersionMismatchFails ==
    /\ [][\A r \in Runs :
            (ExpectsOtherVersion(run[r]) /\ run'[r] # run[r])
            => /\ run'[r].pc \in {"failed", "killed"}
               /\ run'[r].pc = "failed" => run'[r].error = "VersionMismatch"
               /\ run'[r].tree = NoTree
               /\ run'[r].built = {}
               /\ run'[r].touched = {}
               /\ Live' = Live]_vars
    /\ [](\A r \in Runs :
            run[r].error = "VersionMismatch"
            => /\ run[r].pc = "failed"
               /\ run[r].ended_in = "Verifying"
               /\ run[r].touched = {}
               /\ run[r].commands = <<>>)

C11_Witness ==
    \E r \in Runs :
        /\ run[r].pc = "failed"
        /\ run[r].mode = "auto"
        /\ run[r].latest = Some(V2)
        /\ run[r].error = "VersionMismatch"

\* C18: a run exits with status 0 exactly when it reached Done, at the end
\* of Restarting or at the up-to-date short-circuit of Checking; a run in
\* which any step failed, a restart or reload command included, ends Failed
\* with a non-zero status and an error, never with status 0
C18_ExitStatusTellsOutcome ==
    \A r \in Runs :
        LET rr == run[r]
        IN  /\ (rr.exit_code = Some(0)) <=> (rr.pc = "done")
            /\ rr.pc = "done" =>
                   /\ rr.ended_in \in {"Checking", "Restarting"}
                   /\ rr.error = "None"
            /\ rr.pc = "failed" =>
                   /\ rr.exit_code = Some(1)
                   /\ rr.error # "None"
                   /\ rr.faults = {rr.ended_in}
            /\ rr.faults # {} => rr.pc = "failed"
            /\ rr.pc \in Ended <=> rr.exit_code # None

\* the reload of nginx, the last statement of a run, failed
C18_Witness ==
    \E r \in Runs :
        /\ run[r].pc = "failed"
        /\ run[r].ended_in = "Restarting"
        /\ Len(run[r].commands) = 3
        /\ run[r].exit_code = Some(1)

\* the stages of an update run, in the order of the state machine
StageOrder ==
    <<"Checking", "Downloading", "Verifying", "Unpacking", "Building",
      "Installing", "Restarting", "Done">>

\* the place of a stage in that order: 0 for Idle, 9 for Failed
Rank(stage) ==
    IF stage = "Idle" THEN 0
    ELSE IF stage = "Failed" THEN 9
    ELSE CHOOSE i \in 1..8 : StageOrder[i] = stage

\* a run goes from one stage to another in order: it stays in its stage,
\* leaves Idle for an entry stage, enters the next stage, takes the
\* Checking-to-Done short-circuit, or fails
InOrder(from, to, entry) ==
    \/ to = from
    \/ from = "Idle" /\ to \in entry
    \/ Rank(from) \in 1..7 /\ Rank(to) = Rank(from) + 1
    \/ from = "Checking" /\ to = "Done"
    \/ Rank(from) \in 1..7 /\ to = "Failed"

\* what a run holds when the stages before its own succeeded: the release
\* index's answer and the downloads (auto-update), the key, the verified
\* record, the unpacked tree, the build's outputs, the installed files
EarlierStagesSucceeded(rr) ==
    LET at == Rank(StageOf(rr.pc))
    IN  /\ (rr.mode = "auto" /\ at \in 2..7) =>
               rr.latest # None /\ rr.expected = rr.latest
        /\ (rr.mode = "auto" /\ at \in 3..7) =>
               /\ Len(rr.requests) = 3
               /\ rr.requests[2] = <<"asset", SrcName(rr.expected[1])>>
               /\ rr.requests[3] = <<"asset", SigName(rr.expected[1])>>
        /\ (rr.pc = "verify" \/ at \in 4..7) => rr.key # <<>>
        /\ at \in 4..7 => rr.metadata # NoPayload
        /\ at \in 5..7 => rr.tree # NoTree /\ rr.tree.root = "source"
        /\ at \in 6..7 => rr.built # {}
        /\ at = 7 => Installed \subseteq rr.touched
        /\ (rr.pc = "done" /\ rr.ended_in = "Restarting") =>
               Installed \subseteq rr.touched /\ Len(rr.commands) = 3
        /\ at \in 0..3 => rr.touched = {}
        /\ at \in 0..6 => rr.commands = <<>>

\* C19 as stated: every run goes through Checking, Downloading, Verifying,
\* Unpacking, Building, Installing, Restarting, Done in that order, entering
\* at Checking and skipping nothing but by the Checking-to-Done short-circuit
C19_AsClaimed ==
    [][\A r \in Runs :
         InOrder(StageOf(run[r].pc), StageOf(run'[r].pc), {"Checking"})]_vars

\* C19: a run goes through the stages in order, an auto-update entering at
\* Checking and an apply-archive run entering at Verifying with the archive
\* and sidecar it was given; from its entry on no stage is skipped but by the
\* Checking-to-Done short-circuit, a stage is entered only with what the
\* earlier stages produce, and a run that failed or ended takes no more steps
C19_StagesInOrder ==
    /\ [][\A r \in Runs :
            /\ InOrder(StageOf(run[r].pc), StageOf(run'[r].pc),
                       IF run'[r].mode = "apply" THEN {"Verifying"}
                       ELSE {"Checking"})
            /\ run[r].pc \in Ended => run'[r] = run[r]]_vars
    /\ [](\A r \in Runs : EarlierStagesSucceeded(run[r]))

\* an apply-archive run, which never checked or downloaded, reached Done
C19_Witness ==
    \E r \in Runs :
        /\ run[r].mode = "apply"
        /\ run[r].pc = "done"
        /\ run[r].ended_in = "Restarting"
        /\ run[r].requests = <<>>

\* the version the installed-state record holds, None when there is no record
InstalledVersion(file) == IF file.exists THEN file.env.app_version ELSE None

\* the step is run r's write of the config file, made while it holds a valid
\* release whose build succeeded and whose binaries it installed, and the
\* version now recorded is that of the verified signature record, which in
\* an auto-update run is the latest tag the release index reported
WrittenByVerifiedRun(r) ==
    /\ run[r].pc = "write_config"
    /\ "config" \in run'[r].touched
    /\ HoldsGenuine(run[r])
    /\ run[r].metadata = run[r].signature.payload
    /\ run[r].built # {}
    /\ BinarySet \subseteq run[r].touched
    /\ InstalledVersion(configFile') = Some(run[r].metadata.version)
    /\ run[r].mode = "auto" => run[r].latest = Some(run[r].metadata.version)

\* C20 as stated: the installed version changes only in an update run that
\* verified and built an archive, to the version of the signature record
C20_AsClaimed ==
    [][InstalledVersion(configFile') # InstalledVersion(configFile)
         => \E r \in Runs : WrittenByVerifiedRun(r)]_vars

\* C20: the installed version changes only in an update run that verified
\* and built an archive, to the version of the verified signature record
\* (the latest tag, in an auto-update run), or when the operator installs,
\* reinstalls or uninstalls: install records the workspace's version and
\* uninstall removes the record
C20_VersionWrittenByVerifiedRunOrInstaller ==
    [][InstalledVersion(configFile') # InstalledVersion(configFile)
         => \/ \E r \in Runs : WrittenByVerifiedRun(r)
            \/ /\ UNCHANGED run
               /\ InstalledVersion(configFile')
                      \in {None, Some(WORKSPACE_VERSION)}]_vars

\* an auto-update run recorded the latest tag over the version an install
\* had written
C20_Witness ==
    \E r \in Runs :
        /\ run[r].mode = "auto"
        /\ "config" \in run[r].touched
        /\ run[r].pc = "done"
        /\ InstalledVersion(configFile) = run[r].latest
        /\ binDir # [b \in BinarySet |-> WORKSPACE]
        /\ pubkeyFile = TrustedKeyFile(1)

\* ------------------------------------------------- the config file's frame
\* the lines of a file that say something: trimmed, without the empty ones
SaidLines(file) ==
    LET lines == Lines(file.content)
    IN  {Trim(lines[i]) : i \in 1..Len(lines)} \ {<<>>}

\* the key/value pairs of a file, the version's excepted: for every line
\* "key=value" that is not a comment, the key and the trimmed, unquoted value
OtherPairs(file) ==
    {<<SplitOnce(l)[1].key, TrimQuotes(Trim(SplitOnce(l)[1].value))>> :
        l \in {m \in SaidLines(file) :
                 /\ m[1] # 35
                 /\ SplitOnce(m) # None
                 /\ SplitOnce(m)[1].key # KEY_APP_VERSION}}

\* the lines of a file that are not key/value pairs
Remarks(file) ==
    {m \in SaidLines(file) : m[1] = 35 \/ SplitOnce(m) = None}

\* C21: the rewrite at the Installing step changes only the version: every
\* other key/value and every other line of the record is there unchanged
\* afterwards, and no key that was absent is added
C21_OnlyVersionRewritten ==
    envPhase = "rewritten" =>
        /\ OtherPairs(envFile) = OtherPairs(envBefore)
        /\ Remarks(envBefore) \subseteq Remarks(envFile)

\* what the rewrite keeps: the value of every recognised key that the file
\* had, with the version replaced by a release's
C21_RecognisedValuesKept ==
    envPhase = "rewritten" =>
        LET old == read_env_text(envBefore).cfg[1]
            new == read_env_text(envFile).cfg[1]
        IN  /\ new.media_root = old.media_root
            /\ new.www_root = old.www_root
            /\ new.domain_name = old.domain_name
            /\ old.newtube_port # None => new.newtube_port = old.newtube_port
            /\ old.newtube_host # None => new.newtube_host = old.newtube_host
            /\ old.release_repo # None => new.release_repo = old.release_repo
            /\ new.app_version \in {Some(t) : t \in ReleaseTags}

\* ------------------------------------------------------ release packaging
\* the sidecar was made over the archive as it is now on disk, complete
SignedWhole(archive, whole, sidecar) ==
    /\ archive = whole
    /\ sidecar.kind = "json"
    /\ sidecar.payload.digest = ToHex(Blake3(whole.bytes))

\* C22: an artifact is digested and signed only after its archive has been
\* completely written and closed: a signing step finds the whole archive,
\* and a sidecar that exists carries the digest of the whole archive
C22_SignedAfterArchiveComplete ==
    /\ [](pkg.pc = "sign_source" => outDir.src = SourceArchive(pkg.tag))
    /\ [](pkg.pc = "sign_bundle" => outDir.bin = BinaryBundle(pkg.tag))
    /\ [](outDir.src_sig # NoSigFile =>
            SignedWhole(outDir.src, SourceArchive(pkg.tag), outDir.src_sig))
    /\ [](outDir.bin_sig # NoSigFile =>
            SignedWhole(outDir.bin, BinaryBundle(pkg.tag), outDir.bin_sig))

\* both archives were written, closed and then signed
C22_Witness ==
    /\ pkg.pc = "done"
    /\ SignedWhole(outDir.src, SourceArchive(pkg.tag), outDir.src_sig)
    /\ SignedWhole(outDir.bin, BinaryBundle(pkg.tag), outDir.bin_sig)

\* C23: building the binary bundle fails when one of backend,
\* download_channel, routine_update, installer is missing from the build
\* output, and no bundle file is produced then; a bundle that exists holds
\* all four
C23_BundleNeedsEveryBinary ==
    /\ (workspace.built # BinarySet /\ pkg.pc \notin {"build", "source_write",
                                       "source_finish", "bundle_stage"})
           => /\ pkg.pc = "failed"
              /\ outDir.bin = NoFile
              /\ outDir.bin_entries = {}
    /\ outDir.bin_entries # {} =>
           \A b \in BinarySet :
               Entry(<<BINARY_ROOT_DIR, "bin", b>>, "file")
                   \in outDir.bin_entries

\* packaging failed at the bundle because routine_update was not built
C23_Witness ==
    /\ pkg.pc = "failed"
    /\ pkg.error = "MissingBinary"
    /\ "routine_update" \notin workspace.built
    /\ outDir.src = SourceArchive(pkg.tag)
    /\ outDir.bin = NoFile

\* the directories the spec leaves out of a source archive: version control,
\* build output, dependency cache
LeftOutNames == {".git", "target", "node_modules", "coverage"}

\* the path is that of such a directory or lies below one
InLeftOut(path) == \E i \in 1..Len(path) : path[i] \in LeftOutNames

\* the path lies below such a directory
BelowLeftOut(path) == \E i \in 1..(Len(path) - 1) : path[i] \in LeftOutNames

\* C24: every entry of the source archive is a file or directory of the tree
\* under source/ with its relative path; every regular file and directory
\* outside version-control, build-output and dependency-cache directories is
\* in it, and nothing below such a directory is
C24_SourceArchiveHoldsTheTree ==
    outDir.src_entries # {} =>
        /\ \A e \in outDir.src_entries :
               /\ e.path[1] = SOURCE_ROOT_DIR
               /\ \E f \in workspace.tree :
                      f.path = Tail(e.path) /\ FileType(f.kind) = e.kind
               /\ ~BelowLeftOut(Tail(e.path))
        /\ \A f \in workspace.tree :
               (FileType(f.kind) \in {"dir", "file"} /\ ~InLeftOut(f.path))
                   => Entry(<<SOURCE_ROOT_DIR>> \o f.path, FileType(f.kind))
                          \in outDir.src_entries

\* what the archive does hold: the listed files and directories whose first
\* path component is none of the four names, each under source/
C24_SourceArchiveAsBuilt ==
    outDir.src_entries # {} =>
        /\ \A e \in outDir.src_entries :
               /\ e.path[1] = SOURCE_ROOT_DIR
               /\ e.path[2] \notin LeftOutNames
               /\ \E f \in workspace.tree :
                      f.path = Tail(e.path) /\ FileType(f.kind) = e.kind
        /\ \A f \in workspace.tree :
               (/\ FileType(f.kind) \in {"dir", "file"}
                /\ Listed(workspace.tree, f)
                /\ f.path[1] \notin LeftOutNames)
                   => Entry(<<SOURCE_ROOT_DIR>> \o f.path, FileType(f.kind))
                          \in outDir.src_entries

\* ------------------------------------------------- extraction and build
\* C25: the archive is extracted into a temporary directory of the run that
\* was empty before, from the archive the run verified, and the build runs
\* on that directory; neither step changes the binary directory, the www
\* root or the config file
C25_UnpackAndBuildInTempDir ==
    /\ [][\A r \in Runs :
            (run'[r] # run[r] /\ run[r].pc \in {"unpack", "build"})
            => /\ Live' = Live
               /\ run'[r].touched = run[r].touched
               /\ run[r].pc = "unpack" => run[r].tree = NoTree
               /\ run'[r].pc = "build" =>
                      /\ HoldsGenuine(run[r])
                      /\ run'[r].tree.from = run[r].artifact.bytes
               /\ run[r].pc = "build" =>
                      /\ run[r].tree.root = SOURCE_ROOT_DIR
                      /\ run'[r].tree \in {run[r].tree, NoTree}]_vars
    /\ [](\A r \in Runs :
            run[r].pc \in {"unpack", "build"} => run[r].touched = {})

\* a run has extracted and built the archive and nothing live has changed
C25_Witness ==
    \E r \in Runs :
        /\ run[r].pc = "install_bin"
        /\ run[r].tree.from = run[r].artifact.bytes
        /\ run[r].built # {}
        /\ run[r].touched = {}
        /\ binDir = InitialBinDir
        /\ wwwRoot = Dir("full", OLD)
        /\ configFile \in ConfigFiles

\* ------------------------------------------------------- the network
\* the requests of an auto-update for a tag, in the order they are made
RequestsFor(tag) ==
    <<<<"releases/latest">>, <<"asset", SrcName(tag)>>,
      <<"asset", SigName(tag)>>>>

\* one sequence is the beginning of the other
IsPrefix(s, t) == Len(s) <= Len(t) /\ s = SubSeq(t, 1, Len(s))

\* C26: a run makes each of its network requests at most once, in order the
\* latest-release query, the archive download and the signature download;
\* a request that fails ends the run at once, and no request follows it
C26_EachRequestOnce ==
    /\ [](\A r \in Runs :
            /\ run[r].mode # "auto" => run[r].requests = <<>>
            /\ Len(run[r].requests) <= 1
               \/ (run[r].latest # None
                   /\ IsPrefix(run[r].requests, RequestsFor(run[r].latest[1])))
            /\ run[r].error = "Http" =>
                   /\ run[r].pc = "failed"
                   /\ run[r].ended_in \in {"Checking", "Downloading"}
                   /\ run[r].requests # <<>>)
    /\ [][\A r \in Runs :
            /\ run'[r].requests # run[r].requests =>
                   /\ run[r].pc \in {"check", "download_src", "download_sig"}
                   /\ run'[r].requests \in
                          {Append(run[r].requests, q) :
                             q \in {<<"releases/latest">>}
                                 \cup {<<"asset", n>> :
                                         n \in {SrcName(t) : t \in ReleaseTags}
                                          \cup {SigName(t) : t \in ReleaseTags}}}
            /\ run[r].error = "Http" => run'[r] = run[r]]_vars

\* the download of the signature failed after the two requests before it
C26_Witness ==
    \E r \in Runs :
        /\ run[r].error = "Http"
        /\ run[r].ended_in = "Downloading"
        /\ Len(run[r].requests) = 3

\* the release the index reported lacks the archive or the sidecar of its tag
AssetMissing(rr) ==
    /\ rr.latest # None
    /\ \/ SrcName(rr.latest[1]) \notin rr.offered
       \/ SigName(rr.latest[1]) \notin rr.offered

\* C27: the assets are the ones named exactly <source-prefix>-<tag>.tar.gz
\* and <source-prefix>-<tag>.tar.gz.sig for the latest tag; when the release
\* lacks one of them the run fails in Checking with nothing downloaded
\* (unless it stopped before the lookup because it was up to date), and what
\* a run downloads are the two assets of those names
C27_AssetsByExactName ==
    \A r \in Runs :
        LET rr == run[r]
        IN  /\ (AssetMissing(rr) /\ rr.pc # "done") =>
                   /\ rr.pc = "failed"
                   /\ rr.error = "AssetNotFound"
                   /\ rr.ended_in = "Checking"
                   /\ rr.requests = <<<<"releases/latest">>>>
            /\ rr.error = "AssetNotFound" => AssetMissing(rr)
            /\ Len(rr.requests) >= 2 =>
                   rr.requests[2] = <<"asset", SrcName(rr.latest[1])>>
            /\ Len(rr.requests) >= 3 =>
                   rr.requests[3] = <<"asset", SigName(rr.latest[1])>>
            /\ rr.src_asset # None =>
                   /\ rr.src_asset = Some(SrcName(rr.latest[1]))
                   /\ rr.sig_asset = Some(SigName(rr.latest[1]))

\* the latest release v2 offered its archive and the sidecar of v1 only
C27_Witness ==
    \E r \in Runs :
        /\ run[r].error = "AssetNotFound"
        /\ run[r].latest = Some(V2)
        /\ run[r].offered = {SrcName(V2), SigName(V1)}
        /\ run[r].requests = <<<<"releases/latest">>>>

\* the statements of an update in program order
Statements ==
    <<"check", "download_src", "download_sig", "load_key", "verify",
      "unpack", "build", "install_bin", "prepare_assets", "copy_assets",
      "write_config", "restart_backend", "restart_routine", "reload_nginx">>

\* how far a live run has come: its statement, and within the copy of the
\* binaries the binary it is at
Progress(rr) ==
    LET place == CHOOSE i \in 1..Len(Statements) : Statements[i] = rr.pc
    IN  place * (Len(Binaries) + 1) + rr.next_bin

\* a started run comes to an end
RunEnds == \A r \in Runs : (run[r].pc # "idle") ~> (run[r].pc \in Ended)

\* C28: every update run terminates when its external operations return:
\* a started run reaches Done, a failure or its kill; every step of a live
\* run ends it or takes it strictly further in program order, so it makes
\* at most one step per statement and per binary and never goes back; an
\* ended run takes no further step
C28_EveryRunTerminates ==
    /\ RunEnds
    /\ [][\A r \in Runs :
            run'[r] # run[r] =>
                /\ run[r].pc \notin Ended
                /\ run[r].pc = "idle" => run'[r].pc \in {"check", "load_key"}
                /\ run[r].pc # "idle" =>
                     \/ run'[r].pc \in Ended
                     \/ Progress(run'[r]) > Progress(run[r])]_vars

\* a run went through every statement and ended in Done
C28_Witness ==
    \E r \in Runs :
        /\ run[r].pc = "done"
        /\ run[r].ended_in = "Restarting"
        /\ Len(run[r].commands) = 3

\* run r is the only run that has written to the host
OnlyWriter(r) == \A q \in Runs \ {r} : run[q].touched = {}

\* every installed binary and the complete static assets are those of the
\* source archive of tag
InstalledFrom(tag) ==
    /\ binDir = [b \in BinarySet |-> SourceArchive(tag).bytes]
    /\ wwwRoot = Dir("full", SourceArchive(tag).bytes)

\* C29: a run writes the installed version only after it has copied all
\* four binaries and the static assets; when one run alone has written to
\* the host and has set the version to T, every installed binary and the
\* static assets are those built from T's archive
C29_VersionAfterBinariesAndAssets ==
    \A r \in Runs :
        "config" \in run[r].touched =>
            /\ BinarySet \cup {"www"} \subseteq run[r].touched
            /\ OnlyWriter(r) =>
                 \E tag \in ReleaseTags :
                     /\ InstalledVersion(configFile) = Some(tag)
                     /\ InstalledFrom(tag)

\* one run alone replaced an older installation by v2
C29_Witness ==
    \E r \in Runs :
        /\ "config" \in run[r].touched
        /\ OnlyWriter(r)
        /\ InstalledVersion(configFile) = Some(V2)
        /\ InstalledFrom(V2)
        /\ run[r].pc = "done"

\* the step is the release-index query of run r, answered with the tag the
\* installed-state record already holds
ChecksInstalledTag(r) ==
    /\ run[r].pc = "check"
    /\ run'[r].latest # None
    /\ InstalledVersion(configFile) = run'[r].latest

\* C30: the installed version is written before the services are
\* restarted: a run that is restarting, or that failed on a restart or
\* reload command, has written the config, and when it alone wrote to the
\* host the recorded version is already the tag it applied; an auto-update
\* run that finds the recorded version equal to the latest tag ends in Done
\* from Checking, having downloaded nothing and issued no command
C30_VersionWrittenBeforeRestart ==
    /\ [](\A r \in Runs :
            /\ StageOf(run[r].pc) = "Restarting" =>
                   /\ "config" \in run[r].touched
                   /\ OnlyWriter(r) =>
                        InstalledVersion(configFile)
                            = Some(run[r].metadata.version)
            /\ (run[r].ended_in = "Restarting" /\ run[r].pc # "done") =>
                   /\ "config" \in run[r].touched
                   /\ (run[r].pc = "failed") =>
                        (run[r].error = "Command" /\ run[r].commands # <<>>)
                   /\ (OnlyWriter(r) /\ run[r].mode = "auto") =>
                        InstalledVersion(configFile) = run[r].latest)
    /\ [][\A r \in Runs :
            ChecksInstalledTag(r) =>
                /\ run'[r].pc = "done"
                /\ run'[r].ended_in = "Checking"
                /\ run'[r].requests = <<<<"releases/latest">>>>
                /\ run'[r].commands = <<>>
                /\ run'[r].touched = {}]_vars

\* the first run failed on a restart command after recording v2, and the
\* second, finding v2 the latest, stopped in Checking
C30_Witness ==
    /\ run[1].pc = "failed"
    /\ run[1].ended_in = "Restarting"
    /\ run[1].mode = "auto"
    /\ InstalledVersion(configFile) = Some(V2)
    /\ run[2].pc = "done"
    /\ run[2].ended_in = "Checking"
    /\ run[2].latest = Some(V2)
    /\ run[2].commands = <<>>
    /\ run[2].touched = {}

\* ------------------------------------------------- claims: which version
\* the step is the release-index query of auto-update run r, answered with a
\* release that offers its two assets under a tag the record does not hold
ChecksOtherTag(r) ==
    /\ run[r].pc = "check"
    /\ run'[r].latest # None
    /\ InstalledVersion(configFile) # run'[r].latest
    /\ ~AssetMissing(run'[r])

\* C31: a step of an auto-update run leaves the installed version as it was
\* or sets it to exactly the latest tag the release index reported to that
\* run, and a run that has ended does so too, so the version after the run
\* is the one from before or that tag; the comparison is equality only: a
\* latest tag different from the recorded one, newer or older, sends the
\* run on to the downloads with that tag expected
C31_OldVersionOrLatestTag ==
    [][\A r \in Runs :
         /\ (run[r].mode = "auto" /\ run'[r] # run[r]) =>
                \/ InstalledVersion(configFile') = InstalledVersion(configFile)
                \/ /\ run[r].latest # None
                   /\ InstalledVersion(configFile') = run[r].latest
         /\ ChecksOtherTag(r) =>
                /\ run'[r].pc = "download_src"
                /\ run'[r].expected = run'[r].latest]_vars

\* the second run replaced v2, which the first had recorded, by the latest
\* tag v1
C31_Witness ==
    /\ run[1].mode = "auto"
    /\ run[1].latest = Some(V2)
    /\ "config" \in run[1].touched
    /\ run[2].mode = "auto"
    /\ run[2].latest = Some(V1)
    /\ run[2].pc = "done"
    /\ run[2].ended_in = "Restarting"
    /\ InstalledVersion(configFile) = Some(V1)

\* the archive and sidecar run r holds verify under the key it loaded
HoldsValid(rr) ==
    verify_release_signature(rr.artifact, rr.signature, rr.key).err = "None"

C33_NoSourceDirRejected ==
    /\ [](\A r \in Runs :
            /\ run[r].error = "MissingSourceDir" =>
                   /\ run[r].pc = "failed"
                   /\ run[r].ended_in = "Unpacking"
                   /\ run[r].touched = {}
                   /\ run[r].commands = <<>>
                   /\ "Building" \notin run[r].faults
            /\ Rank(StageOf(run[r].pc)) \in 5..7 =>
                   run[r].tree.root = "source")
    /\ [][\A r \in Runs :
            (/\ run[r].pc = "unpack"
             /\ run'[r] # run[r]
             /\ Untar(run[r].artifact).tree.root # "source") =>
                /\ run'[r].pc \in {"failed", "killed"}
                /\ UNCHANGED <<configFile, binDir, wwwRoot>>]_vars

\* a validly signed binary bundle was verified and then rejected
C33_Witness ==
    \E r \in Runs :
        /\ run[r].error = "MissingSourceDir"
        /\ run[r].mode = "apply"
        /\ run[r].ended_in = "Unpacking"

\* ------------------------------------------- claims: the record's round trip
\* C34: reading the record back after writing it returns the media root,
\* www root, port, host, version, domain and release repo that were written
C34_ReadBackReturnsWhatWasWritten ==
    envPhase = "reread" =>
        /\ envRead.err = "None"
        /\ envRead.cfg = envWrote

\* a value survives the round trip when it neither begins nor ends with a
\* double quote and has no line break in it
Plain(text) ==
    /\ TrimQuotes(text) = text
    /\ \A i \in 1..Len(text) : text[i] \notin {10, 13}

\* what does hold: a record whose media root is plain is read back as
\* written, and a release tag written as the version is read back as that
\* tag, so that the next update check seeing the same latest tag stops
C34_PlainValuesReadBack ==
    envPhase = "reread" =>
        /\ envRead.err = "None"
        /\ envRead.cfg # None
        /\ Plain(envWrote[1].media_root[1]) => envRead.cfg = envWrote
        /\ envRead.cfg[1].app_version = envWrote[1].app_version
        /\ envWrote[1].app_version[1] \in ReleaseTags =>
               AlreadyLatest(UnwrapOr(envRead.cfg[1].app_version, <<>>),
                             envWrote[1].app_version[1])

\* a record with v2 and a media root ending in a space was read back
C34_PlainWitness ==
    /\ envPhase = "reread"
    /\ envWrote[1].media_root = Some(<<47, 121, 32>>)
    /\ envRead.cfg[1].app_version = Some(V2)

\* ------------------------------------------------ claims: the backend cache
\* C35: a get_bootstrap call that begins after some call has returned a
\* payload returns that identical payload (the same allocation), or an
\* error; never another payload
C35_SamePayloadForever ==
    \A p \in Requests :
        (/\ req[p].op = "bootstrap"
         /\ req[p].pc = "returned"
         /\ req[p].status = 200
         /\ req[p].after # None) => req[p].result = req[p].after

\* no get_bootstrap call is between its cache miss and its cache write
NoLoadInFlight ==
    \A q \in Requests : ~(req[q].op = "bootstrap" /\ req[q].pc \in {"load", "store"})

\* what does hold: a call that finds the cache filled returns the cached
\* payload; a payload in the cache is replaced only by a call that missed
\* the cache before it was filled, so once no such call is in flight the
\* cached payload stays whatever is written to the database
C35_CachedPayloadKeptOnceSettled ==
    [][/\ (bootstrap # None /\ NoLoadInFlight) => bootstrap' = bootstrap
       /\ \A p \in Requests :
            (req[p].pc = "idle" /\ req'[p].op = "bootstrap" /\ bootstrap # None)
                => (req'[p].pc = "returned" /\ req'[p].result = bootstrap)]_vars

\* two calls missed the empty cache, and the payload the second stored
\* replaced the one already served
C35_RaceWitness ==
    /\ served # None
    /\ bootstrap # served
    /\ NoLoadInFlight

\* the step ends get_media call p
MediaReturns(p) ==
    /\ req[p].op = "media" \/ (req[p].pc = "idle" /\ req'[p].op = "media")
    /\ req[p].pc # "returned"
    /\ req'[p].pc = "returned"

\* C36: a record in the details cache stays there; a get_media call that
\* finds its id cached returns the cached record with no look at the
\* database, so also when the row is gone; a call whose id is not cached
\* and has no row when the database is asked ends in 404 not-found, and a
\* call ending in 404 leaves the cache as it was
C36_MediaServedFromCache ==
    [][/\ \A v \in VideoIds : details[v] # None => details'[v] # None
       /\ \A p \in Requests :
            /\ (req[p].pc = "idle" /\ req'[p].op = "media"
                    /\ details[req'[p].videoid] # None) =>
                   /\ req'[p].pc = "returned"
                   /\ req'[p].status = 200
                   /\ req'[p].result = details[req'[p].videoid]
                   /\ details' = details
            /\ (req[p].op = "media" /\ req[p].pc = "load"
                    /\ db[req[p].videoid] = 0 /\ req'[p].pc = "store") =>
                   req'[p].loaded = None
            /\ (req[p].op = "media" /\ req[p].pc = "store"
                    /\ req[p].loaded = None /\ req'[p] # req[p]) =>
                   req'[p].status = 404
            /\ (MediaReturns(p) /\ req'[p].status # 200) =>
                   /\ details' = details
                   /\ req'[p].result = None]_vars

\* alpha was served from the cache after its row was deleted, and ghost,
\* never stored, was answered with 404 and is not cached
C36_Witness ==
    \E p, q \in Requests :
        /\ req[p].op = "media" /\ req[p].videoid = "alpha"
        /\ req[p].status = 200
        /\ db["alpha"] = 0
        /\ req[q].op = "media" /\ req[q].videoid = "ghost"
        /\ req[q].status = 404
        /\ details["ghost"] = None
        /\ db["ghost"] = 0

\* --------------------------------------------- claims: the download archive
\* the places in the log of the events of one kind for one id
Happened(ev, videoid) ==
    {i \in 1..Len(dlLog) : dlLog[i].ev = ev /\ dlLog[i].videoid = videoid}

\* the download archive and the passes, as the code has them: an id is in
\* the file and in the set only after a download of it returned Ok; no
\* download of an id is started after it was archived; every entry of a
\* finished pass was refreshed (or its refresh failed), except one whose
\* append to the archive failed; a pass that got its list goes through all
\* of it whatever failed on the way
C37_ArchiveAsBuilt ==
    /\ archiveSet \subseteq archiveFile
    /\ \A v \in archiveFile :
         \E i \in Happened("archive", v) :
            /\ i > 1
            /\ dlLog[i - 1].ev = "download_ok"
            /\ dlLog[i - 1].videoid = v
            /\ \A j \in Happened("download_ok", v) \cup Happened("download_err", v) :
                 j < i
    /\ dl.pc = "finished" =>
         \A v \in ChannelIdSet :
            \E i \in 1..Len(dlLog) :
               /\ dlLog[i].pass = dl.pass
               /\ dlLog[i].videoid = v
               /\ dlLog[i].ev \in {"refresh", "refresh_err", "archive_err"}
    /\ dl.pc = "finished" =>
         \A v \in ChannelIdSet :
            (\E i \in Happened("archive", v) : dlLog[i].pass < dl.pass) =>
               \E i \in 1..Len(dlLog) :
                  /\ dlLog[i].pass = dl.pass
                  /\ dlLog[i].videoid = v
                  /\ dlLog[i].ev \in {"refresh", "refresh_err"}

\* C37: an id is in the download archive, file and set, only when its media
\* was downloaded: the media files of the video are on disk
C37_ArchivedOnlyAfterMediaDownloaded ==
    \A v \in archiveFile \cup archiveSet : mediaFiles[v] = Formats

\* in its second pass the downloader went through both entries although
\* the download of one and the refresh of the other had failed in the first
C37_AsBuiltWitness ==
    /\ dl.pc = "finished"
    /\ dl.pass = 2
    /\ Happened("download_err", "a") # {}
    /\ Happened("refresh_err", "b") # {}
    /\ "b" \in archiveFile
====
